---- MODULE Spec2Model ----
(***************************************************************************)
(* The acquisition engine of ASLM: Model.run_command and the threads it    *)
(* starts (src/src/model/aslm_model.py).  The command thread, the live     *)
(* sweep threads and the drain threads are interleaved one statement (one  *)
(* shared access or one device call) at a time.                            *)
(***************************************************************************)
EXTENDS Integers, Sequences, FiniteSets, TLC

\* ---------------------------------------------------------------- bounds
\* Thread objects that may be alive together, per kind (live sweep, drain).
MaxThreads == 2
\* Frames the camera keeps ready between two polls (older ones are overwritten).
MaxPending == 2
\* Slots of the shared frame ring buffer.
NumSlots == 2
\* Cap on current_time_point, which the code never resets.
MaxTimePoint == 2
\* Device calls that may raise in one behaviour of SpecFail.
MaxFailures == 1
\* Stage positions, z steps and time points of the experiments of SpecList.
MaxPositions == 3
MaxSlices == 2
MaxTimepoints == 2
\* The largest n_tries auto_redial is called with.
MaxTries == 3
\* The largest number of channels, slices, time points and positions of a
\* data source, and the largest number of frames written to it.
MaxShape == 2
MaxWrites == 9
\* The largest number of channels and of z steps the camera view is
\* initialised with, and the largest number of frames it is shown.
MaxChannels == 6
MaxSteps == 5
MaxFrames == 16
\* The largest number of z planes of a pyramidal image, and the largest
\* down-sampling cap of a configuration.
MaxExtent == 3
MaxDownSample == 3
\* The longest index tuple handed to __getitem__.
MaxKeys == 8
\* The largest number of masks handed to display_mask.
MaxMasks == 3

\* ------------------------------------------------------ program constants
\* None, for the counters that __init__ leaves unset.
NoneVal == -1
\* self.current_laser_index
InitLaserIndex == 1
\* self.current_exposure_time, in milliseconds
InitExposureTime == 200
\* The number of channels the per_stack branch of
\* identify_channel_index_and_slice tells apart.
ChannelCap == 5

VARIABLES
    data_buffer,              \* self.data_buffer is set (truthy)
    show_img_pipe,            \* self.show_img_pipe is set
    MicroscopeState,          \* self.experiment.MicroscopeState
    is_save,                  \* self.is_save
    stop_acquisition,         \* self.stop_acquisition
    stop_send_signal,         \* self.stop_send_signal
    counters,                 \* image_count, acquisition_count, totals
    current_time_point,       \* self.current_time_point
    current_channel,          \* self.current_channel
    live_thread,              \* self.live_thread: a thread id, 0 = no attribute
    data_thread,              \* self.data_thread: a thread id, 0 = no attribute
    thr,                      \* every thread of control: position and locals
    cmd,                      \* the command the command thread runs or ran last
    ctrl,                     \* what the controller believes: "idle" or "live"
    shutter,                  \* the shutter device
    camera,                   \* the camera device and its ready frames
    daq,                      \* the DAQ facade
    sink,                     \* the display sink behind show_img_pipe
    saved,                    \* write_tiff calls of the current run
    fail_budget,              \* device calls that may still raise
    startup,                  \* a call of a device start-up function
    zarr,                     \* a ZarrDataSource
    pyramid,                  \* a PyramidalDataSource
    view                      \* the CameraViewController's frame bookkeeping

vars == <<data_buffer, show_img_pipe, MicroscopeState, is_save, stop_acquisition,
          stop_send_signal, counters, current_time_point, current_channel,
          live_thread, data_thread, thr, cmd, ctrl, shutter, camera, daq, sink,
          saved, fail_budget, startup, zarr, pyramid, view>>

\* ------------------------------------------------------------ thread ids
CMD == 0
LiveIds == 1..MaxThreads
DataIds == (MaxThreads + 1)..(2 * MaxThreads)
ThreadIds == {CMD} \cup LiveIds \cup DataIds

\* ------------------------------------------------------- MicroscopeState
\* One entry of MicroscopeState['channels'].
Channel(k, sel) ==
    [key |-> k, is_selected |-> sel,
     camera_exposure_time |-> IF k = "channel_1" THEN 100
                              ELSE IF k = "channel_2" THEN 150 ELSE 250,
     laser_index |-> IF k = "channel_1" THEN 0 ELSE IF k = "channel_2" THEN 2 ELSE 3,
     laser_power |-> IF k = "channel_1" THEN 20 ELSE IF k = "channel_2" THEN 40 ELSE 60,
     filter |-> IF k = "channel_1" THEN 1 ELSE IF k = "channel_2" THEN 2 ELSE 3]

\* The channel dictionaries the controller hands over, in their iteration
\* (insertion) order.
ChannelDicts ==
    { <<Channel("channel_1", FALSE), Channel("channel_2", TRUE)>>,
      <<Channel("channel_2", TRUE), Channel("channel_1", TRUE)>> }

MState(chs, mode, m, z, t, save) ==
    [channels |-> chs, resolution_mode |-> mode, stage_positions |-> m,
     number_z_steps |-> z, timepoints |-> t, is_save |-> save]

\* The experiment file loaded by __init__.
DefaultExperiment == MState(<<Channel("channel_1", TRUE)>>, "low", 1, 1, 1, FALSE)

\* The MicroscopeState snapshots passed as args[0].
MicroscopeStates ==
    { DefaultExperiment,
      MState(<<Channel("channel_1", FALSE), Channel("channel_2", TRUE)>>, "high", 2, 1, 1, FALSE),
      MState(<<Channel("channel_2", TRUE), Channel("channel_1", TRUE)>>, "low", 1, 2, 1, TRUE),
      MState(<<Channel("channel_1", TRUE)>>, "nano", 1, 1, 1, FALSE) }

\* int(channel_key[len('channel_'):])
ChannelIndex(key) ==
    CASE key = "channel_1" -> 1
      [] key = "channel_2" -> 2
      [] key = "channel_3" -> 3

\* list(channels): the keys in iteration order.
Keys(chs) == [j \in 1..Len(chs) |-> chs[j].key]

HasKey(chs, key) == \E j \in 1..Len(chs) : chs[j].key = key

\* channels[key]
Lookup(chs, key) == chs[CHOOSE j \in 1..Len(chs) : chs[j].key = key]

\* The selected entries of a channel dictionary, in iteration order.
RECURSIVE SelectedKeys(_)
SelectedKeys(chs) ==
    IF chs = <<>> THEN <<>>
    ELSE IF chs[1].is_selected
         THEN <<chs[1].key>> \o SelectedKeys(Tail(chs))
         ELSE SelectedKeys(Tail(chs))

\* ---------------------------------------------------------------- threads
Terminated(t) == thr[t].pc \in {"none", "done", "dead"}

Alive(t) == ~Terminated(t)

NoThread ==
    [pc |-> "none", i |-> 0, keys |-> <<>>, chs |-> <<>>, cur |-> FALSE,
     log |-> <<>>, n |-> 0, count_frame |-> FALSE, frame_ids |-> <<>>,
     got |-> 0, sent |-> 0, in_call |-> "none"]

\* The lowest thread id of a kind that is free for a new thread object.
FreeId(ids) == CHOOSE t \in ids : Terminated(t) /\ \A u \in ids : Terminated(u) => t <= u

HasFree(ids) == \E t \in ids : Terminated(t)

SweepPcs ==
    {"for_channel", "set_exposure_time", "trigger_digital_laser",
     "set_laser_analog_voltage", "set_filter", "sweep_time",
     "update_etl_parameters", "prepare_acquisition", "run_acquisition",
     "stop_acquisition"}

DeviceCallPcs ==
    {"set_exposure_time", "trigger_digital_laser", "set_laser_analog_voltage",
     "set_filter", "update_etl_parameters", "prepare_acquisition",
     "run_acquisition", "stop_acquisition"}

InSweep(t) == thr[t].pc \in SweepPcs

\* One device operation as the device sees it.
Op(name, ch, a, b) == [op |-> name, ch |-> ch, a |-> a, b |-> b]

\* ------------------------------------------------------------ variable groups
cfgVars == <<data_buffer, show_img_pipe, MicroscopeState, is_save>>
flagVars == <<stop_acquisition, stop_send_signal>>
cntVars == <<counters, current_time_point, current_channel>>
refVars == <<live_thread, data_thread>>
devVars == <<shutter, camera, daq>>
outVars == <<sink, saved>>
envVars == <<ctrl, fail_budget, startup, zarr, pyramid, view>>

\* No start-up function is being called.
NoStartup ==
    [fn |-> "none", pc |-> "none", args |-> <<>>, i |-> 0, calls |-> 0, val |-> 0,
     result |-> "none"]

\* A ZarrDataSource as ZarrDataSource("", "w") leaves it: __init__ sets image
\* and __store to None, and the mode check of a writing source closes what was
\* open (nothing), zeroes the frame counter, sets the container up once and
\* marks the source open.  shape_c, shape_z, shape_t and positions are the
\* metadata; written is every frame handed to write, container the frames
\* the container holds; op, outcome and last describe the last call.
NoZarr ==
    [shape_c |-> 1, shape_z |-> 1, shape_t |-> 1, positions |-> 1, per_stack |-> TRUE,
     current_frame |-> 0, closed |-> FALSE, store |-> "None", setups |-> 1,
     written |-> <<>>, container |-> <<>>, op |-> "none", outcome |-> "none",
     last |-> [frame |-> 0, setup |-> FALSE, close |-> FALSE], result |-> <<>>]

\* A PyramidalDataSource after __init__: one resolution level (1,1,1) and
\* no cached shapes or subdivisions (<<>> stands for None).
NoPyramid ==
    [shape_x |-> 1, shape_y |-> 1, shape_z |-> 1, shape_c |-> 1, shape_t |-> 1,
     positions |-> 1, resolutions |-> << <<1, 1, 1>> >>, shapes |-> <<>>,
     subdivisions |-> <<>>, op |-> "none", read |-> <<>>, stale |-> FALSE,
     keys |-> <<>>, pc |-> "none", todo |-> <<>>, calls |-> <<>>, sub_divisions |-> 0,
     outcome |-> "none", result |-> "none", cached |-> FALSE, sel |-> <<>>,
     config |-> [bdv |-> "none", max_xy |-> 1, max_z |-> 1]]

\* The frame bookkeeping and the mask overlay of a CameraViewController after
\* __init__.  lock is whether ilastik_mask_ready_lock is locked;
\* ilastik_seg_mask is 0 for None and k for the k-th mask display_mask
\* assigned; mask_read is what populate_image read last (-1: nothing yet);
\* pc_table, pc_display and pc_populate are the positions of the callers of
\* set_mask_color_table, display_mask and populate_image.
NoView ==
    [number_of_slices |-> 0, image_volume |-> "None", total_images_per_volume |-> 0,
     number_of_channels |-> 0, image_counter |-> 0, slice_index |-> 0,
     channel_index |-> 0, stack_cycling_mode |-> "none", images_received |-> 0,
     outcome |-> "none",
     display_mask_flag |-> FALSE, lock |-> FALSE, mask_color_table |-> "None",
     ilastik_seg_mask |-> 0, mask_read |-> -1, pc_table |-> "idle",
     pc_display |-> "idle", pc_populate |-> "idle", mask_outcome |-> "none"]

NoSources == zarr = NoZarr /\ pyramid = NoPyramid /\ view = NoView

NoCommand ==
    [command |-> "none", ms |-> DefaultExperiment, what |-> "none",
     channels |-> <<>>, outcome |-> "none"]

\* What is left of a command once it has returned or raised.
Returned(outcome) == [NoCommand EXCEPT !.command = cmd.command, !.outcome = outcome]

NoSink == [last |-> "none", late |-> FALSE]

\* show_img_pipe.send(...), as the sink sees it: a "frame" message (a slot id)
\* or the "stop" message; late records a message that arrives after 'stop'
\* within one acquisition.
Send(kind) == [last |-> kind, late |-> sink.late \/ sink.last = "stop"]

\* ------------------------------------------------------------------ Init
\* Model.__init__: the state after construction, with the experiment file loaded.
InitModel(experiment) ==
    /\ data_buffer = FALSE
    /\ show_img_pipe = FALSE
    /\ MicroscopeState = experiment
    /\ is_save = FALSE
    /\ stop_acquisition = FALSE
    /\ stop_send_signal = FALSE
    /\ counters = [image_count |-> 0, acquisition_count |-> 0,
                   total_acquisition_count |-> NoneVal,
                   total_image_count |-> NoneVal]
    /\ current_time_point = 0
    /\ current_channel = 0
    /\ live_thread = 0
    /\ data_thread = 0
    /\ thr = [t \in ThreadIds |-> IF t = CMD THEN [NoThread EXCEPT !.pc = "idle"]
                                  ELSE NoThread]
    /\ cmd = NoCommand
    /\ ctrl = "idle"
    /\ shutter = "closed"
    /\ camera = [pending |-> <<>>, next_slot |-> 0]
    /\ daq = [last |-> "none"]
    /\ sink = NoSink
    /\ saved = <<>>

Init ==
    InitModel(DefaultExperiment) /\ fail_budget = 0 /\ startup = NoStartup /\ NoSources

\* ------------------------------------------------- run_single_acquisition
\* Lines 385-387: read MicroscopeState and start iterating its channels.
StartSweep(r) ==
    [r EXCEPT !.pc = "for_channel", !.i = 1,
              !.keys = Keys(MicroscopeState["channels"]),
              !.chs = MicroscopeState["channels"], !.cur = TRUE, !.log = <<>>]

\* The sweep returns to its caller: run_live_acquisition or run_command.
EndSweep(t, r) ==
    [r EXCEPT !.pc = IF t = CMD THEN "l221" ELSE "while", !.cur = FALSE]

\* A device call completed: log it and go to the next statement.
Did(r, next, name, a, b) ==
    [r EXCEPT !.pc = next, !.in_call = "none",
              !.log = Append(@, Op(name, ChannelIndex(r.keys[r.i]), a, b))]

\* Variant of ForChannel that does not test is_selected: every configured
\* channel is acquired.
ForChannel_AllChannels(t) ==
    /\ thr[t].pc = "for_channel"
    /\ LET r == thr[t] IN
       IF r.i > Len(r.keys) \/ stop_acquisition \/ stop_send_signal
       THEN /\ thr' = [thr EXCEPT ![t] = EndSweep(t, r)]
            /\ UNCHANGED current_channel
       ELSE /\ thr' = [thr EXCEPT ![t] = [r EXCEPT !.pc = "set_exposure_time"]]
            /\ current_channel' = ChannelIndex(r.keys[r.i])
    /\ UNCHANGED <<cfgVars, flagVars, counters, current_time_point, refVars, cmd,
                   devVars, outVars, envVars>>

\* Variant of ForChannel that does not consult the stop flags: a sweep always
\* runs through all its channels.
ForChannel_NoBreak(t) ==
    /\ thr[t].pc = "for_channel"
    /\ LET r == thr[t] IN
       IF r.i > Len(r.keys)
       THEN /\ thr' = [thr EXCEPT ![t] = EndSweep(t, r)]
            /\ UNCHANGED current_channel
       ELSE IF Lookup(r.chs, r.keys[r.i]).is_selected
       THEN /\ thr' = [thr EXCEPT ![t] = [r EXCEPT !.pc = "set_exposure_time"]]
            /\ current_channel' = ChannelIndex(r.keys[r.i])
       ELSE /\ thr' = [thr EXCEPT ![t] = [r EXCEPT !.i = r.i + 1]]
            /\ UNCHANGED current_channel
    /\ UNCHANGED <<cfgVars, flagVars, counters, current_time_point, refVars, cmd,
                   devVars, outVars, envVars>>

\* Lines 387-396: the head of the channel loop.
ForChannel(t) ==
    /\ thr[t].pc = "for_channel"
    /\ LET r == thr[t] IN
       IF r.i > Len(r.keys) \/ stop_acquisition \/ stop_send_signal
       THEN /\ thr' = [thr EXCEPT ![t] = EndSweep(t, r)]
            /\ UNCHANGED <<current_channel, cmd>>
       ELSE IF ~HasKey(r.chs, r.keys[r.i])
       THEN \* KeyError: the thread, or the command, ends with the exception
            /\ thr' = [thr EXCEPT ![t] = [NoThread EXCEPT !.pc = IF t = CMD THEN "idle" ELSE "dead"]]
            /\ cmd' = IF t = CMD THEN Returned("KeyError") ELSE cmd
            /\ UNCHANGED current_channel
       ELSE IF Lookup(r.chs, r.keys[r.i]).is_selected
       THEN /\ thr' = [thr EXCEPT ![t] = [r EXCEPT !.pc = "set_exposure_time"]]
            /\ current_channel' = ChannelIndex(r.keys[r.i])
            /\ UNCHANGED cmd
       ELSE /\ thr' = [thr EXCEPT ![t] = [r EXCEPT !.i = r.i + 1]]
            /\ UNCHANGED <<current_channel, cmd>>
    /\ UNCHANGED <<cfgVars, flagVars, counters, current_time_point, refVars,
                   devVars, outVars, envVars>>

\* Line 399: camera.set_exposure_time(channel['camera_exposure_time'])
SetExposureTime(t) ==
    /\ thr[t].pc = "set_exposure_time"
    /\ LET r == thr[t]
           channel == Lookup(r.chs, r.keys[r.i]) IN
       thr' = [thr EXCEPT ![t] = Did(r, "trigger_digital_laser", "set_exposure_time",
                                     channel.camera_exposure_time, 0)]
    /\ UNCHANGED <<cfgVars, flagVars, cntVars, refVars, cmd, devVars, outVars, envVars>>

\* Lines 402-403: laser_triggers.trigger_digital_laser(self.current_laser_index)
TriggerDigitalLaser(t) ==
    /\ thr[t].pc = "trigger_digital_laser"
    /\ thr' = [thr EXCEPT ![t] = Did(thr[t], "set_laser_analog_voltage",
                                     "trigger_digital_laser", InitLaserIndex, 0)]
    /\ UNCHANGED <<cfgVars, flagVars, cntVars, refVars, cmd, devVars, outVars, envVars>>

\* Lines 404-405: laser_triggers.set_laser_analog_voltage(laser_index, laser_power)
SetLaserAnalogVoltage(t) ==
    /\ thr[t].pc = "set_laser_analog_voltage"
    /\ LET r == thr[t]
           channel == Lookup(r.chs, r.keys[r.i]) IN
       thr' = [thr EXCEPT ![t] = Did(r, "set_filter", "set_laser_analog_voltage",
                                     channel.laser_index, channel.laser_power)]
    /\ UNCHANGED <<cfgVars, flagVars, cntVars, refVars, cmd, devVars, outVars, envVars>>

\* Variant of SetFilter in which the filter wheel is set after the DAQ sweep
\* time: the two statements are exchanged.
SetFilter_AfterSweepTime(t) ==
    /\ thr[t].pc = "set_filter"
    /\ thr' = [thr EXCEPT ![t] = Did(thr[t], "update_etl_parameters", "sweep_time",
                                     InitExposureTime, 0)]
    /\ UNCHANGED <<cfgVars, flagVars, cntVars, refVars, cmd, devVars, outVars, envVars>>

\* Line 408: filter_wheel.set_filter(channel['filter'])
SetFilter(t) ==
    /\ thr[t].pc = "set_filter"
    /\ LET r == thr[t]
           channel == Lookup(r.chs, r.keys[r.i]) IN
       thr' = [thr EXCEPT ![t] = Did(r, "sweep_time", "set_filter", channel.filter, 0)]
    /\ UNCHANGED <<cfgVars, flagVars, cntVars, refVars, cmd, devVars, outVars, envVars>>

\* Line 411: daq.sweep_time = self.current_exposure_time / 1000, kept here in
\* milliseconds (the value in seconds times 1000).
SetSweepTime(t) ==
    /\ thr[t].pc = "sweep_time"
    /\ thr' = [thr EXCEPT ![t] = Did(thr[t], "update_etl_parameters", "sweep_time",
                                     InitExposureTime, 0)]
    /\ UNCHANGED <<cfgVars, flagVars, cntVars, refVars, cmd, devVars, outVars, envVars>>

\* Line 414: daq.update_etl_parameters(microscope_state, channel)
UpdateEtlParameters(t) ==
    /\ thr[t].pc = "update_etl_parameters"
    /\ thr' = [thr EXCEPT ![t] = Did(thr[t], "prepare_acquisition",
                                     "update_etl_parameters", 0, 0)]
    /\ UNCHANGED <<cfgVars, flagVars, cntVars, refVars, cmd, devVars, outVars, envVars>>

\* ------------------------------------------------------------- snap_image
\* Line 431: daq.prepare_acquisition()
PrepareAcquisition(t) ==
    /\ thr[t].pc = "prepare_acquisition"
    /\ daq' = [daq EXCEPT !.last = "prepare"]
    /\ thr' = [thr EXCEPT ![t] = Did(thr[t], "run_acquisition", "prepare_acquisition", 0, 0)]
    /\ UNCHANGED <<cfgVars, flagVars, cntVars, refVars, cmd, shutter, camera, outVars,
                   envVars>>

\* The camera exposes one frame into the next ring slot; a ready frame that
\* was never polled is overwritten once MaxPending are waiting.
Expose(cam) ==
    [cam EXCEPT !.pending = IF Len(@) < MaxPending THEN Append(@, cam.next_slot)
                            ELSE Append(Tail(@), cam.next_slot),
                !.next_slot = (@ + 1) % NumSlots]

\* Line 432: daq.run_acquisition(), the trigger that makes the camera expose.
RunAcquisition(t) ==
    /\ thr[t].pc = "run_acquisition"
    /\ daq' = [daq EXCEPT !.last = "run"]
    /\ camera' = Expose(camera)
    /\ thr' = [thr EXCEPT ![t] = Did(thr[t], "stop_acquisition", "run_acquisition", 0, 0)]
    /\ UNCHANGED <<cfgVars, flagVars, cntVars, refVars, cmd, shutter, outVars, envVars>>

\* Line 433: daq.stop_acquisition(); the loop goes to the next channel key.
StopAcquisition(t) ==
    /\ thr[t].pc = "stop_acquisition"
    /\ daq' = [daq EXCEPT !.last = "stop"]
    /\ thr' = [thr EXCEPT ![t] =
                 [Did(thr[t], "for_channel", "stop_acquisition", 0, 0)
                    EXCEPT !.i = thr[t].i + 1]]
    /\ UNCHANGED <<cfgVars, flagVars, cntVars, refVars, cmd, shutter, camera, outVars,
                   envVars>>

\* ---------------------------------------------------- run_live_acquisition
\* Line 441: self.stop_acquisition = False
LiveClearStop(t) ==
    /\ t \in LiveIds
    /\ thr[t].pc = "l441"
    /\ stop_acquisition' = FALSE
    /\ thr' = [thr EXCEPT ![t] = [@ EXCEPT !.pc = "while"]]
    /\ UNCHANGED <<cfgVars, stop_send_signal, cntVars, refVars, cmd, devVars, outVars,
                   envVars>>

\* Lines 442-443: the loop test, then run_single_acquisition or the return.
LiveWhile(t) ==
    /\ t \in LiveIds
    /\ thr[t].pc = "while"
    /\ thr' = [thr EXCEPT ![t] =
                 IF ~stop_acquisition /\ ~stop_send_signal
                 THEN StartSweep(thr[t])
                 ELSE [NoThread EXCEPT !.pc = "done"]]
    /\ UNCHANGED <<cfgVars, flagVars, cntVars, refVars, cmd, devVars, outVars, envVars>>

\* ------------------------------------------------------- run_data_process
\* Line 285: count_frame = num_of_frames > 0
StartData(r, num) ==
    [r EXCEPT !.pc = "get_new_frame", !.n = num, !.count_frame = num > 0,
              !.frame_ids = <<>>]

\* run_data_process returns: to run_command, or the drain thread ends.
EndData(t, r) ==
    IF t = CMD THEN [r EXCEPT !.pc = "l223", !.frame_ids = <<>>]
    ELSE [NoThread EXCEPT !.pc = "done"]

\* Line 287: frame_ids = self.camera.get_new_frame(), every frame made ready
\* since the previous poll.
GetNewFrame(t) ==
    /\ thr[t].pc = "get_new_frame"
    /\ camera' = [camera EXCEPT !.pending = <<>>]
    /\ thr' = [thr EXCEPT ![t] =
                 [@ EXCEPT !.pc = "dispatch", !.in_call = "none",
                           !.frame_ids = camera.pending,
                           !.got = IF t = CMD THEN @ + Len(camera.pending) ELSE @]]
    /\ UNCHANGED <<cfgVars, flagVars, cntVars, refVars, cmd, shutter, daq, outVars,
                   envVars>>

\* Lines 306-313: one write_tiff thread per polled frame.
WriteTiffCalls(f) ==
    [j \in 1..Len(f) |-> [ids |-> f, idx |-> f[j], channel |-> current_channel,
                          time_point |-> current_time_point + j - 1]]

\* Lines 292-318: show and save the polled frames, then count the poll.
Dispatch(t) ==
    /\ thr[t].pc = "dispatch"
    /\ LET r == thr[t]
           f == r.frame_ids
           shown == f # <<>> /\ show_img_pipe
           counted == [r EXCEPT !.n = IF r.count_frame THEN @ - 1 ELSE @,
                                !.frame_ids = <<>>,
                                !.sent = IF t = CMD /\ shown THEN @ + 1 ELSE @] IN
       /\ sink' = IF shown THEN Send("frame") ELSE sink
       /\ saved' = IF f # <<>> /\ is_save THEN saved \o WriteTiffCalls(f) ELSE saved
       /\ current_time_point' = IF f # <<>> /\ is_save THEN current_time_point + Len(f)
                                ELSE current_time_point
       /\ thr' = [thr EXCEPT ![t] =
                    IF r.count_frame /\ counted.n = 0 THEN EndData(t, counted)
                    ELSE [counted EXCEPT !.pc = "check_stop"]]
    /\ UNCHANGED <<cfgVars, flagVars, counters, current_channel, refVars, cmd, devVars,
                   envVars>>

\* Variant of CheckStop without the break: 'stop' is sent and the loop goes on.
CheckStop_NoBreak(t) ==
    /\ thr[t].pc = "check_stop"
    /\ sink' = IF stop_acquisition /\ show_img_pipe THEN Send("stop") ELSE sink
    /\ thr' = [thr EXCEPT ![t] = [@ EXCEPT !.pc = "get_new_frame"]]
    /\ UNCHANGED <<cfgVars, flagVars, cntVars, refVars, cmd, devVars, saved, envVars>>

\* Lines 320-325: on stop_acquisition send 'stop' and leave the loop.
CheckStop(t) ==
    /\ thr[t].pc = "check_stop"
    /\ IF stop_acquisition
       THEN /\ sink' = IF show_img_pipe THEN Send("stop") ELSE sink
            /\ thr' = [thr EXCEPT ![t] = EndData(t, thr[t])]
       ELSE /\ sink' = sink
            /\ thr' = [thr EXCEPT ![t] = [@ EXCEPT !.pc = "get_new_frame"]]
    /\ UNCHANGED <<cfgVars, flagVars, cntVars, refVars, cmd, devVars, saved, envVars>>

\* ------------------------------------------------------------ run_command
\* run_command returns (or raises) to the controller.
Return(r, outcome) ==
    /\ cmd' = Returned(outcome)
    /\ thr' = [thr EXCEPT ![CMD] = [NoThread EXCEPT !.pc = "idle"]]

Goto(pc) == thr' = [thr EXCEPT ![CMD] = [@ EXCEPT !.pc = pc]]

\* Assigning a new MicroscopeState object: a sweep in progress keeps the old one.
Detached(t) == [thr[t] EXCEPT !.cur = FALSE]

\* Line 197: the controller calls run_command(command, *args).
Issue(c, ms, what, chs) ==
    /\ thr[CMD].pc = "idle"
    /\ cmd' = [command |-> c, ms |-> ms, what |-> what, channels |-> chs,
               outcome |-> "running"]
    /\ Goto("l203")
    /\ ctrl' = IF c = "live" THEN "live" ELSE IF c = "stop" THEN "idle" ELSE ctrl
    /\ UNCHANGED <<cfgVars, flagVars, cntVars, refVars, devVars, outVars, fail_budget,
                   startup, zarr, pyramid, view>>

\* Variant of CheckBuffer without the data-buffer test: every command is run.
CheckBuffer_NoTest ==
    /\ thr[CMD].pc = "l203"
    /\ Goto(CASE cmd.command = "single" -> "l213"
              [] cmd.command = "live" -> "l226"
              [] cmd.command = "series" -> "l238"
              [] cmd.command = "update_setting" -> "l244"
              [] cmd.command = "stop" -> "l256")
    /\ UNCHANGED <<cfgVars, flagVars, cntVars, refVars, cmd, devVars, outVars, envVars>>

\* Lines 203-206: without a data buffer the command returns at once.
CheckBuffer ==
    /\ thr[CMD].pc = "l203"
    /\ IF ~data_buffer
       THEN Return(thr[CMD], "returned")
       ELSE /\ Goto(CASE cmd.command = "single" -> "l213"
                      [] cmd.command = "live" -> "l226"
                      [] cmd.command = "series" -> "l238"
                      [] cmd.command = "update_setting" -> "l244"
                      [] cmd.command = "stop" -> "l256")
            /\ UNCHANGED cmd
    /\ UNCHANGED <<cfgVars, flagVars, cntVars, refVars, devVars, outVars, envVars>>

\* Lines 465-471: open_shutter
OpenShutter(mode) ==
    IF mode = "low" THEN "left" ELSE IF mode = "high" THEN "right" ELSE shutter

\* Lines 213-216 (single): take over the MicroscopeState and the saving choice.
Single213 ==
    /\ thr[CMD].pc = "l213"
    /\ MicroscopeState' = cmd.ms
    /\ is_save' = cmd.ms["is_save"]
    /\ thr' = [t \in ThreadIds |->
                 IF t = CMD
                 THEN [thr[t] EXCEPT !.pc = "l217", !.log = <<>>, !.got = 0,
                                     !.sent = 0, !.cur = FALSE]
                 ELSE Detached(t)]
    /\ sink' = NoSink
    /\ saved' = <<>>
    /\ UNCHANGED <<data_buffer, show_img_pipe, flagVars, cntVars, refVars, cmd, devVars,
                   envVars>>

\* Line 217
Single217 ==
    /\ thr[CMD].pc = "l217"
    /\ stop_acquisition' = FALSE
    /\ Goto("l218")
    /\ UNCHANGED <<cfgVars, stop_send_signal, cntVars, refVars, cmd, devVars, outVars,
                   envVars>>

\* Line 218
Single218 ==
    /\ thr[CMD].pc = "l218"
    /\ stop_send_signal' = FALSE
    /\ Goto("l219")
    /\ UNCHANGED <<cfgVars, stop_acquisition, cntVars, refVars, cmd, devVars, outVars,
                   envVars>>

\* Line 219
Single219 ==
    /\ thr[CMD].pc = "l219"
    /\ shutter' = OpenShutter(MicroscopeState["resolution_mode"])
    /\ Goto("l220")
    /\ UNCHANGED <<cfgVars, flagVars, cntVars, refVars, cmd, camera, daq, outVars,
                   envVars>>

\* Line 220: run_single_acquisition() in the command thread.
Single220 ==
    /\ thr[CMD].pc = "l220"
    /\ thr' = [thr EXCEPT ![CMD] = StartSweep(thr[CMD])]
    /\ UNCHANGED <<cfgVars, flagVars, cntVars, refVars, cmd, devVars, outVars, envVars>>

\* Line 221
Single221 ==
    /\ thr[CMD].pc = "l221"
    /\ stop_acquisition' = TRUE
    /\ Goto("l222")
    /\ UNCHANGED <<cfgVars, stop_send_signal, cntVars, refVars, cmd, devVars, outVars,
                   envVars>>

\* Line 222: run_data_process(1) in the command thread.
Single222 ==
    /\ thr[CMD].pc = "l222"
    /\ thr' = [thr EXCEPT ![CMD] = StartData(thr[CMD], 1)]
    /\ UNCHANGED <<cfgVars, flagVars, cntVars, refVars, cmd, devVars, outVars, envVars>>

\* Line 223: close_shutter(), then the command returns.
Single223 ==
    /\ thr[CMD].pc = "l223"
    /\ shutter' = "closed"
    /\ Return(thr[CMD], "returned")
    /\ UNCHANGED <<cfgVars, flagVars, cntVars, refVars, camera, daq, outVars, envVars>>

\* Lines 226-227 (live)
Live226 ==
    /\ thr[CMD].pc = "l226"
    /\ MicroscopeState' = cmd.ms
    /\ is_save' = FALSE
    /\ thr' = [t \in ThreadIds |->
                 IF t = CMD
                 THEN [thr[t] EXCEPT !.pc = "l228", !.log = <<>>, !.got = 0,
                                     !.sent = 0, !.cur = FALSE]
                 ELSE Detached(t)]
    /\ sink' = NoSink
    /\ saved' = <<>>
    /\ UNCHANGED <<data_buffer, show_img_pipe, flagVars, cntVars, refVars, cmd, devVars,
                   envVars>>

\* Line 228
Live228 ==
    /\ thr[CMD].pc = "l228"
    /\ stop_acquisition' = FALSE
    /\ Goto("l229")
    /\ UNCHANGED <<cfgVars, stop_send_signal, cntVars, refVars, cmd, devVars, outVars,
                   envVars>>

\* Line 229
Live229 ==
    /\ thr[CMD].pc = "l229"
    /\ stop_send_signal' = FALSE
    /\ Goto("l230")
    /\ UNCHANGED <<cfgVars, stop_acquisition, cntVars, refVars, cmd, devVars, outVars,
                   envVars>>

\* Line 230
Live230 ==
    /\ thr[CMD].pc = "l230"
    /\ shutter' = OpenShutter(MicroscopeState["resolution_mode"])
    /\ Goto("l231")
    /\ UNCHANGED <<cfgVars, flagVars, cntVars, refVars, cmd, camera, daq, outVars,
                   envVars>>

\* Lines 231-233: the two Thread objects are created, not yet started.
Live231 ==
    /\ thr[CMD].pc = "l231"
    /\ HasFree(LiveIds) /\ HasFree(DataIds)
    /\ live_thread' = FreeId(LiveIds)
    /\ data_thread' = FreeId(DataIds)
    /\ thr' = [thr EXCEPT ![CMD] = [@ EXCEPT !.pc = "l234"],
                          ![FreeId(LiveIds)] = [NoThread EXCEPT !.pc = "created"],
                          ![FreeId(DataIds)] = [NoThread EXCEPT !.pc = "created"]]
    /\ UNCHANGED <<cfgVars, flagVars, cntVars, cmd, devVars, outVars, envVars>>

\* Line 234: live_thread.start()
Live234 ==
    /\ thr[CMD].pc = "l234"
    /\ thr' = [thr EXCEPT ![CMD] = [@ EXCEPT !.pc = "l235"],
                          ![live_thread] = [@ EXCEPT !.pc = "l441"]]
    /\ UNCHANGED <<cfgVars, flagVars, cntVars, refVars, cmd, devVars, outVars, envVars>>

\* Line 235: data_thread.start(), running run_data_process(); the command returns.
Live235 ==
    /\ thr[CMD].pc = "l235"
    /\ cmd' = Returned("returned")
    /\ thr' = [thr EXCEPT ![CMD] = [NoThread EXCEPT !.pc = "idle"],
                          ![data_thread] = StartData(thr[data_thread], 0)]
    /\ UNCHANGED <<cfgVars, flagVars, cntVars, refVars, devVars, outVars, envVars>>

\* Line 238 (series)
Series238 ==
    /\ thr[CMD].pc = "l238"
    /\ MicroscopeState' = cmd.ms
    /\ cmd' = Returned("returned")
    /\ thr' = [t \in ThreadIds |->
                 IF t = CMD THEN [NoThread EXCEPT !.pc = "idle"] ELSE Detached(t)]
    /\ UNCHANGED <<data_buffer, show_img_pipe, is_save, flagVars, cntVars, refVars,
                   devVars, outVars, envVars>>

\* Line 244 (update_setting)
Update244 ==
    /\ thr[CMD].pc = "l244"
    /\ stop_send_signal' = TRUE
    /\ Goto("l245")
    /\ UNCHANGED <<cfgVars, stop_acquisition, cntVars, refVars, cmd, devVars, outVars,
                   envVars>>

\* Variant of Update245 that does not wait for the live thread.
Update245_NoJoin ==
    /\ thr[CMD].pc = "l245"
    /\ IF live_thread = 0
       THEN Return(thr[CMD], "AttributeError")
       ELSE /\ Goto("l246")
            /\ UNCHANGED cmd
    /\ UNCHANGED <<cfgVars, flagVars, cntVars, refVars, devVars, outVars, envVars>>

\* Line 245: self.live_thread.join(); AttributeError when there is none.
Update245 ==
    /\ thr[CMD].pc = "l245"
    /\ IF live_thread = 0
       THEN Return(thr[CMD], "AttributeError")
       ELSE /\ Terminated(live_thread)
            /\ Goto("l246")
            /\ UNCHANGED cmd
    /\ UNCHANGED <<cfgVars, flagVars, cntVars, refVars, devVars, outVars, envVars>>

\* Lines 246-247: MicroscopeState['channels'] = args[1], seen by whoever holds
\* the same MicroscopeState object.
Update246 ==
    /\ thr[CMD].pc = "l246"
    /\ IF cmd.what = "channel"
       THEN /\ MicroscopeState' = [MicroscopeState EXCEPT !.channels = cmd.channels]
            /\ thr' = [t \in ThreadIds |->
                         IF t = CMD THEN [thr[t] EXCEPT !.pc = "l249"]
                         ELSE IF thr[t].cur THEN [thr[t] EXCEPT !.chs = cmd.channels]
                         ELSE thr[t]]
       ELSE /\ UNCHANGED MicroscopeState
            /\ Goto("l249")
    /\ UNCHANGED <<data_buffer, show_img_pipe, is_save, flagVars, cntVars, refVars, cmd,
                   devVars, outVars, envVars>>

\* Line 249
Update249 ==
    /\ thr[CMD].pc = "l249"
    /\ stop_send_signal' = FALSE
    /\ Goto("l250")
    /\ UNCHANGED <<cfgVars, stop_acquisition, cntVars, refVars, cmd, devVars, outVars,
                   envVars>>

\* Lines 250-252: a new live thread is created and started; the command returns.
Update250 ==
    /\ thr[CMD].pc = "l250"
    /\ HasFree(LiveIds)
    /\ live_thread' = FreeId(LiveIds)
    /\ cmd' = Returned("returned")
    /\ thr' = [thr EXCEPT ![CMD] = [NoThread EXCEPT !.pc = "idle"],
                          ![FreeId(LiveIds)] = [NoThread EXCEPT !.pc = "l441"]]
    /\ UNCHANGED <<cfgVars, flagVars, cntVars, data_thread, devVars, outVars, envVars>>

\* Lines 256-257 (stop): raise the flag, then look for a live thread.
Stop256 ==
    /\ thr[CMD].pc = "l256"
    /\ stop_acquisition' = TRUE
    /\ Goto(IF live_thread # 0 THEN "l258" ELSE "l260")
    /\ UNCHANGED <<cfgVars, stop_send_signal, cntVars, refVars, cmd, devVars, outVars,
                   envVars>>

\* Variant of Stop258 that does not wait for the live thread.
Stop258_NoJoin ==
    /\ thr[CMD].pc = "l258"
    /\ Goto("l259")
    /\ UNCHANGED <<cfgVars, flagVars, cntVars, refVars, cmd, devVars, outVars, envVars>>

\* Line 258: self.live_thread.join()
Stop258 ==
    /\ thr[CMD].pc = "l258"
    /\ Terminated(live_thread)
    /\ Goto("l259")
    /\ UNCHANGED <<cfgVars, flagVars, cntVars, refVars, cmd, devVars, outVars, envVars>>

\* Line 259: self.data_thread.join()
Stop259 ==
    /\ thr[CMD].pc = "l259"
    /\ Terminated(data_thread)
    /\ Goto("l260")
    /\ UNCHANGED <<cfgVars, flagVars, cntVars, refVars, cmd, devVars, outVars, envVars>>

\* Line 260: close_shutter(), then the command returns.
Stop260 ==
    /\ thr[CMD].pc = "l260"
    /\ shutter' = "closed"
    /\ Return(thr[CMD], "returned")
    /\ UNCHANGED <<cfgVars, flagVars, cntVars, refVars, camera, daq, outVars, envVars>>

\* ------------------------------------------------- other calls on the Model
Called(name) == [NoCommand EXCEPT !.command = name, !.outcome = "returned"]

\* Lines 185-187: set_data_buffer; the camera starts a new image series.
SetDataBuffer ==
    /\ thr[CMD].pc = "idle"
    /\ data_buffer' = TRUE
    /\ camera' = [camera EXCEPT !.pending = <<>>, !.next_slot = 0]
    /\ cmd' = Called("set_data_buffer")
    /\ UNCHANGED <<show_img_pipe, MicroscopeState, is_save, flagVars, cntVars, refVars,
                   thr, shutter, daq, outVars, envVars>>

\* Lines 179-183: set_show_img_pipe
SetShowImgPipe ==
    /\ thr[CMD].pc = "idle"
    /\ show_img_pipe' = TRUE
    /\ cmd' = Called("set_show_img_pipe")
    /\ UNCHANGED <<data_buffer, MicroscopeState, is_save, flagVars, cntVars, refVars,
                   thr, devVars, outVars, envVars>>

\* Lines 351-355: calculate_number_of_channels
calculate_number_of_channels == Len(MicroscopeState["channels"])

\* Lines 357-373: prepare_acquisition_list
PrepareAcquisitionList ==
    /\ thr[CMD].pc = "idle"
    /\ LET number_of_channels == calculate_number_of_channels
           number_of_positions == MicroscopeState["stage_positions"]
           number_of_slices == MicroscopeState["number_z_steps"]
           number_of_time_points == MicroscopeState["timepoints"]
           total == number_of_channels * number_of_positions * number_of_time_points IN
       counters' = [image_count |-> 0, acquisition_count |-> 0,
                    total_acquisition_count |-> total,
                    total_image_count |-> total * number_of_slices]
    /\ cmd' = Called("prepare_acquisition_list")
    /\ UNCHANGED <<cfgVars, flagVars, current_time_point, current_channel, refVars, thr,
                   devVars, outVars, envVars>>

\* ----------------------------------------------------------- the controller
\* The acquisition state machine the controller follows: an acquisition is
\* requested from Idle, a setting is updated during a live run, stop at any time.
Allowed(c) ==
    CASE c \in {"single", "live", "series"} -> ctrl = "idle"
      [] c = "update_setting" -> ctrl = "live"
      [] c = "stop" -> TRUE

RequestAcquisition ==
    \E c \in {"single", "live", "series"}, ms \in MicroscopeStates :
        /\ Allowed(c)
        /\ c = "live" => HasFree(LiveIds) /\ HasFree(DataIds)
        /\ (c = "single" /\ ms["is_save"]) => current_time_point + MaxPending <= MaxTimePoint
        /\ Issue(c, ms, "none", <<>>)

RequestUpdateSetting ==
    /\ Allowed("update_setting")
    /\ \/ \E chs \in ChannelDicts : Issue("update_setting", DefaultExperiment, "channel", chs)
       \/ Issue("update_setting", DefaultExperiment, "other", <<>>)

RequestStop ==
    /\ Allowed("stop")
    /\ Issue("stop", DefaultExperiment, "none", <<>>)

\* The buffer and the display pipe are wired up by the controller while idle.
Setup ==
    /\ ctrl = "idle"
    /\ \/ SetDataBuffer
       \/ SetShowImgPipe

\* ------------------------------------------------------------ next state
CmdStep ==
    \/ CheckBuffer
    \/ Single213 \/ Single217 \/ Single218 \/ Single219 \/ Single220
    \/ Single221 \/ Single222 \/ Single223
    \/ Live226 \/ Live228 \/ Live229 \/ Live230 \/ Live231 \/ Live234 \/ Live235
    \/ Series238
    \/ Update244 \/ Update245 \/ Update246 \/ Update249 \/ Update250
    \/ Stop256 \/ Stop258 \/ Stop259 \/ Stop260

SweepStep(t) ==
    \/ ForChannel(t)
    \/ SetExposureTime(t)
    \/ TriggerDigitalLaser(t)
    \/ SetLaserAnalogVoltage(t)
    \/ SetFilter(t)
    \/ SetSweepTime(t)
    \/ UpdateEtlParameters(t)
    \/ PrepareAcquisition(t)
    \/ RunAcquisition(t)
    \/ StopAcquisition(t)

LiveStep(t) == LiveClearStop(t) \/ LiveWhile(t)

DataStep(t) == GetNewFrame(t) \/ Dispatch(t) \/ CheckStop(t)

\* A device call of a sweep raises: the exception ends the thread, or the command.
DeviceRaises(t) ==
    /\ fail_budget > 0
    /\ thr[t].pc \in DeviceCallPcs
    /\ fail_budget' = fail_budget - 1
    /\ thr' = [thr EXCEPT ![t] = [NoThread EXCEPT !.pc = IF t = CMD THEN "idle" ELSE "dead"]]
    /\ cmd' = IF t = CMD THEN Returned("DeviceError") ELSE cmd
    /\ UNCHANGED <<cfgVars, flagVars, cntVars, refVars, ctrl, devVars, outVars, startup,
                   zarr, pyramid, view>>

Threads ==
    \/ \E t \in LiveIds \cup {CMD} : SweepStep(t)
    \/ \E t \in LiveIds : LiveStep(t)
    \/ \E t \in DataIds \cup {CMD} : DataStep(t)

Next ==
    \/ RequestAcquisition
    \/ RequestUpdateSetting
    \/ RequestStop
    \/ Setup
    \/ CmdStep
    \/ Threads

Spec == Init /\ [][Next]_vars

\* Device calls may raise.
InitFail ==
    InitModel(DefaultExperiment) /\ fail_budget = MaxFailures /\ startup = NoStartup
    /\ NoSources

NextFail == Next \/ \E t \in LiveIds \cup {CMD} : DeviceRaises(t)

SpecFail == InitFail /\ [][NextFail]_vars

\* Every thread that can run keeps running (the interpreter switches threads),
\* the controller need not issue another command.
Fairness ==
    /\ WF_vars(CmdStep \/ SweepStep(CMD) \/ DataStep(CMD))
    /\ \A t \in LiveIds : WF_vars(LiveStep(t) \/ SweepStep(t))
    /\ \A t \in DataIds : WF_vars(DataStep(t))

FairSpec == Init /\ [][Next]_vars /\ Fairness

\* ------------------------------------------- device calls that take time
\* The device a statement calls; the assignment to daq.sweep_time is no call.
Device(pc) ==
    CASE pc \in {"set_exposure_time", "get_new_frame"} -> "camera"
      [] pc \in {"trigger_digital_laser", "set_laser_analog_voltage"} -> "laser"
      [] pc = "set_filter" -> "filter_wheel"
      [] pc \in {"update_etl_parameters", "prepare_acquisition", "run_acquisition",
                 "stop_acquisition"} -> "daq"
      [] OTHER -> "none"

\* Thread t calls into a device; the call completes with the statement's action.
CallEnter(t) ==
    /\ Device(thr[t].pc) # "none"
    /\ thr[t].in_call = "none"
    /\ thr' = [thr EXCEPT ![t] = [@ EXCEPT !.in_call = Device(thr[t].pc)]]
    /\ UNCHANGED <<cfgVars, flagVars, cntVars, refVars, cmd, devVars, outVars, envVars>>

\* A statement that is a device call runs only once the call was made.
MayStep(t) == Device(thr[t].pc) = "none" \/ thr[t].in_call # "none"

ThreadsCalls ==
    \/ \E t \in ThreadIds : CallEnter(t)
    \/ \E t \in LiveIds \cup {CMD} : MayStep(t) /\ SweepStep(t)
    \/ \E t \in LiveIds : LiveStep(t)
    \/ \E t \in DataIds \cup {CMD} : MayStep(t) /\ DataStep(t)

NextCalls ==
    \/ RequestAcquisition
    \/ RequestUpdateSetting
    \/ RequestStop
    \/ Setup
    \/ CmdStep
    \/ ThreadsCalls

SpecCalls == Init /\ [][NextCalls]_vars

\* ------------------------------------------------ any sequence of commands
\* The caller of run_command follows no protocol: whenever the previous call
\* has returned it may issue any command. To keep the number of threads small,
\* a further `live` is issued only once the threads of the previous one ended.
RequestAny ==
    \/ \E c \in {"single", "live", "series"} :
          /\ c = "live" => \A t \in LiveIds \cup DataIds : Terminated(t)
          /\ Issue(c, DefaultExperiment, "none", <<>>)
    \/ Issue("update_setting", DefaultExperiment, "other", <<>>)
    \/ Issue("stop", DefaultExperiment, "none", <<>>)

NextAny ==
    \/ RequestAny
    \/ SetDataBuffer
    \/ SetShowImgPipe
    \/ CmdStep
    \/ Threads

SpecAny == Init /\ [][NextAny]_vars

\* --------------------------------------------- prepare_acquisition_list alone
\* The experiments prepare_acquisition_list is applied to: one or two channels,
\* each selected or not.
ListChannelDicts ==
    { <<Channel("channel_1", a)>> : a \in BOOLEAN }
      \cup { <<Channel("channel_1", a), Channel("channel_2", b)>> : a, b \in BOOLEAN }

ListStates ==
    { MState(chs, "low", m, z, t, FALSE) :
        chs \in ListChannelDicts, m \in 1..MaxPositions, z \in 1..MaxSlices,
        t \in 1..MaxTimepoints }

InitList ==
    /\ \E ms \in ListStates : InitModel(ms) /\ fail_budget = 0 /\ startup = NoStartup
    /\ NoSources

NextList == PrepareAcquisitionList

SpecList == InitList /\ [][NextList]_vars

\* ------------------------------------------------------------ auto_redial
\* What one call of func does: it returns a device, raises `exception`, or
\* raises something else.
CallOutcomes == {"ok", "exception", "other"}

\* auto_redial(func, args, n_tries, exception): func is given by the outcome
\* of each of its successive calls; val is 0 for None, k for the object that
\* call number k returned.
RedialArgs ==
    { [outcomes |-> o, n_tries |-> n] :
        o \in [1..MaxTries -> CallOutcomes], n \in 0..MaxTries }

InitRedial ==
    /\ InitModel(DefaultExperiment)
    /\ fail_budget = 0
    /\ NoSources
    /\ \E a \in RedialArgs :
          startup = [NoStartup EXCEPT !.fn = "auto_redial", !.pc = "for", !.args = a]

RedialUnchanged ==
    UNCHANGED <<cfgVars, flagVars, cntVars, refVars, thr, cmd, devVars, outVars, ctrl,
                fail_budget, zarr, pyramid, view>>

\* Variant of RedialTry in which the last failed attempt does not raise.
RedialTry_NoRaise ==
    /\ startup.fn = "auto_redial" /\ startup.pc = "for"
    /\ LET i == startup.i
           n == startup.args.n_tries IN
       startup' =
         IF i >= n THEN [startup EXCEPT !.pc = "l94"]
         ELSE IF startup.args.outcomes[i + 1] = "ok"
         THEN [startup EXCEPT !.calls = @ + 1, !.val = i + 1, !.pc = "l94"]
         ELSE IF startup.args.outcomes[i + 1] = "other"
         THEN [startup EXCEPT !.calls = @ + 1, !.pc = "raised_other"]
         ELSE [startup EXCEPT !.calls = @ + 1, !.val = 0, !.i = i + 1]
    /\ RedialUnchanged

\* Lines 75-92: one iteration of the for loop, or its end.
RedialTry ==
    /\ startup.fn = "auto_redial" /\ startup.pc = "for"
    /\ LET i == startup.i
           n == startup.args.n_tries IN
       startup' =
         IF i >= n THEN [startup EXCEPT !.pc = "l94"]
         ELSE IF startup.args.outcomes[i + 1] = "ok"
         \* lines 77, 91-92: val = func(...), then break
         THEN [startup EXCEPT !.calls = @ + 1, !.val = i + 1, !.pc = "l94"]
         ELSE IF startup.args.outcomes[i + 1] = "other"
         \* an exception that is not `exception` is not caught
         THEN [startup EXCEPT !.calls = @ + 1, !.pc = "raised_other"]
         ELSE IF i < n - 1
         \* lines 79-88: val was not assigned by the failed call
         THEN [startup EXCEPT !.calls = @ + 1, !.val = 0, !.i = i + 1]
         \* line 90: raise exception
         ELSE [startup EXCEPT !.calls = @ + 1, !.pc = "raised"]
    /\ RedialUnchanged

\* Line 94: return val
RedialReturn ==
    /\ startup.fn = "auto_redial" /\ startup.pc = "l94"
    /\ startup' = [startup EXCEPT !.pc = "returned",
                                  !.result = IF startup.val = 0 THEN "None" ELSE "device"]
    /\ RedialUnchanged

NextRedial == RedialTry \/ RedialReturn

SpecRedial == InitRedial /\ [][NextRedial]_vars

\* ------------------------------------------- device start and load functions
\* Each function is the value it returns: the name of the class it builds,
\* "auto_redial" for the result of auto_redial(...), "device_connection" for
\* the connection passed in, or "exit" when device_not_found ends it.
\* Lines 454-457: device_not_found prints and calls sys.exit().
device_not_found == "exit"

\* Lines 97-130
load_camera_connection(c) ==
    LET cam_type == IF c.is_synthetic THEN "SyntheticCamera" ELSE c.type IN
    IF cam_type = "HamamatsuOrca" THEN "auto_redial"
    ELSE IF cam_type = "SyntheticCamera" THEN "SyntheticCameraController"
    ELSE device_not_found

\* Lines 132-166
start_camera(c) ==
    LET cam_type == IF c.is_synthetic THEN "SyntheticCamera" ELSE c.type IN
    IF ~c.has_connection THEN device_not_found
    ELSE IF cam_type = "HamamatsuOrca" THEN "HamamatsuOrca"
    ELSE IF cam_type = "SyntheticCamera" THEN "SyntheticCamera"
    ELSE device_not_found

\* Lines 189-197 and 200-208: the dispatch on one stage type.
StageOfType(stage_type, windows) ==
    IF stage_type = "PI" /\ windows THEN "auto_redial"
    ELSE IF stage_type = "SyntheticStage" THEN "SyntheticStage"
    ELSE device_not_found

\* Lines 169-208: every path of the loop body returns or exits, so a list of
\* stages is decided by its first entry; an empty list falls through to None.
start_stages(c) ==
    IF c.is_list
    THEN IF c.stages = <<>> THEN "None" ELSE StageOfType(c.stages[1], c.windows)
    ELSE StageOfType(c.type, c.windows)

\* Lines 210-228
start_stages_r(c) ==
    IF c.stages[2] = "Thorlabs" /\ c.windows THEN "auto_redial" ELSE device_not_found

\* Lines 231-244
load_zoom_connection(c) ==
    LET device_type == IF c.is_synthetic THEN "SyntheticZoom" ELSE c.type IN
    IF device_type = "DynamixelZoom" THEN "auto_redial"
    ELSE IF device_type = "SyntheticZoom" THEN "DummyDeviceConnection"
    ELSE device_not_found

\* Lines 246-276
start_zoom(c) ==
    LET device_type == IF c.is_synthetic THEN "SyntheticZoom"
                       ELSE IF c.has_hardware THEN c.type ELSE "NoDevice" IN
    IF device_type = "DynamixelZoom" THEN "DynamixelZoom"
    ELSE IF device_type = "SyntheticZoom" THEN "SyntheticZoom"
    ELSE IF device_type = "NoDevice" THEN "ZoomBase"
    ELSE device_not_found

\* Lines 278-290
load_filter_wheel_connection(c) ==
    LET device_type == IF c.is_synthetic THEN "SyntheticFilterWheel" ELSE c.type IN
    IF device_type = "SutterFilterWheel" THEN "auto_redial"
    ELSE IF device_type = "SyntheticFilterWheel" THEN "DummyDeviceConnection"
    ELSE device_not_found

\* Lines 292-320
start_filter_wheel(c) ==
    LET device_type == IF c.is_synthetic THEN "SyntheticFilterWheel" ELSE c.type IN
    IF ~c.has_connection THEN device_not_found
    ELSE IF device_type = "SutterFilterWheel" THEN "SutterFilterWheel"
    ELSE IF device_type = "SyntheticFilterWheel" THEN "SyntheticFilterWheel"
    ELSE device_not_found

\* Lines 323-348
start_daq(c) ==
    LET device_type == IF c.is_synthetic THEN "SyntheticDAQ" ELSE c.type IN
    IF device_type = "NI" THEN "NIDAQ"
    ELSE IF device_type = "SyntheticDAQ" THEN "SyntheticDAQ"
    ELSE device_not_found

\* Lines 351-385
start_shutter(c) ==
    LET device_type == IF c.is_synthetic THEN "SyntheticShutter" ELSE c.type IN
    IF device_type = "NI"
    THEN IF c.has_connection THEN "device_connection" ELSE "ShutterTTL"
    ELSE IF device_type = "SyntheticShutter"
    THEN IF c.has_connection THEN "device_connection" ELSE "SyntheticShutter"
    ELSE device_not_found

\* Lines 388-422
start_lasers(c) ==
    LET device_type == IF c.is_synthetic THEN "SyntheticLaser" ELSE c.type IN
    IF device_type = "NI"
    THEN IF c.has_connection THEN "device_connection" ELSE "LaserNI"
    ELSE IF device_type = "SyntheticLaser"
    THEN IF c.has_connection THEN "device_connection" ELSE "SyntheticLaser"
    ELSE device_not_found

\* Lines 424-437
start_remote_focus_device(c) ==
    LET device_type == IF c.is_synthetic THEN "SyntheticRemoteFocus" ELSE c.type IN
    IF device_type = "NI" THEN "RemoteFocusNI"
    ELSE IF device_type = "SyntheticRemoteFocus" THEN "SyntheticRemoteFocus"
    ELSE device_not_found

\* Lines 439-452
start_galvo(c) ==
    LET device_type == IF c.is_synthetic THEN "SyntheticGalvo" ELSE c.type IN
    IF device_type = "NI" THEN "GalvoNI"
    ELSE IF device_type = "SyntheticGalvo" THEN "SyntheticGalvo"
    ELSE device_not_found

StageFunctions == {"start_stages", "start_stages_r"}

DeviceFunctions ==
    {"load_camera_connection", "start_camera", "load_zoom_connection", "start_zoom",
     "load_filter_wheel_connection", "start_filter_wheel", "start_daq",
     "start_shutter", "start_lasers", "start_remote_focus_device", "start_galvo"}

\* The function named fn applied to the configuration c.
StartFunction(fn, c) ==
    CASE fn = "load_camera_connection" -> load_camera_connection(c)
      [] fn = "start_camera" -> start_camera(c)
      [] fn = "start_stages" -> start_stages(c)
      [] fn = "start_stages_r" -> start_stages_r(c)
      [] fn = "load_zoom_connection" -> load_zoom_connection(c)
      [] fn = "start_zoom" -> start_zoom(c)
      [] fn = "load_filter_wheel_connection" -> load_filter_wheel_connection(c)
      [] fn = "start_filter_wheel" -> start_filter_wheel(c)
      [] fn = "start_daq" -> start_daq(c)
      [] fn = "start_shutter" -> start_shutter(c)
      [] fn = "start_lasers" -> start_lasers(c)
      [] fn = "start_remote_focus_device" -> start_remote_focus_device(c)
      [] fn = "start_galvo" -> start_galvo(c)

\* The type strings a configuration file may hold; "Bogus" is none the code knows.
DeviceTypes ==
    {"HamamatsuOrca", "SyntheticCamera", "DynamixelZoom", "SyntheticZoom",
     "SutterFilterWheel", "SyntheticFilterWheel", "NI", "SyntheticDAQ",
     "SyntheticShutter", "SyntheticLaser", "SyntheticRemoteFocus", "SyntheticGalvo",
     "NoDevice", "Bogus"}

StageTypes == {"PI", "SyntheticStage", "Thorlabs", "Bogus"}

StartupArgs ==
    { [type |-> ty, stages |-> <<>>, is_list |-> FALSE, is_synthetic |-> sy,
       has_connection |-> co, windows |-> FALSE, has_hardware |-> hw] :
        ty \in DeviceTypes, sy \in BOOLEAN, co \in BOOLEAN, hw \in BOOLEAN }

StageArgs ==
    { [type |-> ty, stages |-> <<>>, is_list |-> FALSE, is_synthetic |-> FALSE,
       has_connection |-> FALSE, windows |-> w, has_hardware |-> TRUE] :
        ty \in StageTypes, w \in BOOLEAN }
      \cup
    { [type |-> a, stages |-> <<a, b>>, is_list |-> TRUE, is_synthetic |-> FALSE,
       has_connection |-> FALSE, windows |-> w, has_hardware |-> TRUE] :
        a \in StageTypes, b \in StageTypes, w \in BOOLEAN }

InitStartup ==
    /\ InitModel(DefaultExperiment)
    /\ fail_budget = 0
    /\ NoSources
    /\ \/ \E fn \in DeviceFunctions, c \in StartupArgs :
             startup = [NoStartup EXCEPT !.fn = fn, !.pc = "call", !.args = c]
       \/ \E c \in StageArgs :
             startup = [NoStartup EXCEPT !.fn = "start_stages", !.pc = "call", !.args = c]
       \/ \E c \in {a \in StageArgs : a.is_list} :
             startup = [NoStartup EXCEPT !.fn = "start_stages_r", !.pc = "call", !.args = c]

\* Variant of StartDevice in which an unknown type falls back to a default
\* device instead of ending in device_not_found.
StartDevice_Default ==
    /\ startup.pc = "call"
    /\ startup.fn \in DeviceFunctions \cup StageFunctions
    /\ LET r == StartFunction(startup.fn, startup.args) IN
       startup' = [startup EXCEPT !.pc = "returned",
                                  !.result = IF r = device_not_found THEN "ZoomBase" ELSE r]
    /\ RedialUnchanged

\* The function is called: it returns its device, or device_not_found exits.
StartDevice ==
    /\ startup.pc = "call"
    /\ startup.fn \in DeviceFunctions \cup StageFunctions
    /\ LET r == StartFunction(startup.fn, startup.args) IN
       startup' = [startup EXCEPT !.pc = IF r = device_not_found THEN "exited"
                                         ELSE "returned",
                                  !.result = r]
    /\ RedialUnchanged

NextStartup == StartDevice

SpecStartup == InitStartup /\ [][NextStartup]_vars

\* --------------------------------------------------------- ZarrDataSource
\* DataSource._cztp_indices(frame_id, per_stack): the (c, z, t, p) indices of
\* a frame.  z and c vary fastest, in the order the cycling mode gives, then
\* the position, then the time point, which is not wrapped.
cztp_indices(ds, frame_id, per_stack) ==
    LET C == ds.shape_c
        Z == ds.shape_z
        c == IF per_stack THEN (frame_id \div Z) % C ELSE frame_id % C
        z == IF per_stack THEN frame_id % Z ELSE (frame_id \div C) % Z
        p == (frame_id \div (C * Z)) % ds.positions
        t == frame_id \div (C * Z * ds.positions)
    IN  <<c, z, t, p>>

\* close(), lines 84-89: nothing when the source is closed already;
\* otherwise _check_shape, then self.__store.close().  __store is None from
\* __init__ (line 45) and nothing assigns it (_setup_zarr is `pass`), so the
\* call raises AttributeError and line 89 is not reached.
close(ds) ==
    IF ds.closed THEN [ds EXCEPT !.outcome = "ok"]
    ELSE IF ds.store = "None" THEN [ds EXCEPT !.outcome = "AttributeError"]
    ELSE [ds EXCEPT !.closed = TRUE, !.outcome = "ok"]

\* write(data), lines 48-62.  The mode is "w" already, so line 49 changes
\* nothing.  The frame itself is not used by any statement.
ZarrWrite ==
    /\ Len(zarr.written) < MaxWrites
    /\ \E data \in {0, 1} :
         LET f == zarr.current_frame
             now == cztp_indices(zarr, f, zarr.per_stack)
             setup == now[2] = 0 /\ now[1] = 0 /\ now[3] = 0 /\ now[4] = 0
             next == cztp_indices(zarr, f + 1, zarr.per_stack)
             last == /\ next[2] = 0 /\ next[1] = 0
                     /\ (next[3] >= zarr.shape_t \/ next[4] >= zarr.positions)
             ds == [zarr EXCEPT !.current_frame = f + 1,
                                !.setups = IF setup THEN @ + 1 ELSE @,
                                !.written = Append(@, data),
                                !.op = "write",
                                !.outcome = "ok",
                                !.last = [frame |-> f, setup |-> setup, close |-> last]]
         IN  zarr' = IF last THEN close(ds) ELSE ds
    /\ UNCHANGED <<cfgVars, flagVars, cntVars, refVars, thr, cmd, devVars, outVars, ctrl,
                   fail_budget, startup, pyramid, view>>

\* A call of close() by the owner of the source.
ZarrClose ==
    /\ zarr.op # "close"
    /\ zarr' = close([zarr EXCEPT !.op = "close"])
    /\ UNCHANGED <<cfgVars, flagVars, cntVars, refVars, thr, cmd, devVars, outVars, ctrl,
                   fail_budget, startup, pyramid, view>>

\* ds[:, :, 0, :, 0, 0]: one channel, time point and position are selected,
\* so __getitem__ returns get_slice(...) (lines 256-257), and get_slice
\* raises NotImplementedError (lines 310-312): no class of the data source
\* reads the container.
ZarrRead ==
    /\ zarr.op # "read"
    /\ zarr' = [zarr EXCEPT !.op = "read", !.outcome = "NotImplementedError",
                            !.result = <<>>]
    /\ UNCHANGED <<cfgVars, flagVars, cntVars, refVars, thr, cmd, devVars, outVars, ctrl,
                   fail_budget, startup, pyramid, view>>

InitZarr ==
    /\ InitModel(DefaultExperiment)
    /\ fail_budget = 0
    /\ startup = NoStartup
    /\ pyramid = NoPyramid
    /\ view = NoView
    /\ \E C \in 1..MaxShape, Z \in 1..MaxShape, T \in 1..MaxShape, P \in 1..MaxShape,
          ps \in BOOLEAN :
          zarr = [NoZarr EXCEPT !.shape_c = C, !.shape_z = Z, !.shape_t = T,
                                !.positions = P, !.per_stack = ps]

NextZarr == ZarrWrite \/ ZarrClose \/ ZarrRead

SpecZarr == InitZarr /\ [][NextZarr]_vars

\* --------------------------------------------------- CameraViewController
ViewUnchanged ==
    UNCHANGED <<cfgVars, flagVars, cntVars, refVars, thr, cmd, devVars, outVars, ctrl,
                fail_budget, startup, zarr, pyramid>>

\* initialize_non_live_display, lines 692-696, for a microscope state with C
\* channels, Z z steps and the given stack cycling mode; the count of frames
\* received starts again with the acquisition.
InitializeNonLiveDisplay ==
    /\ \E C \in 1..MaxChannels, Z \in 1..MaxSteps, mode \in {"per_stack", "per_z"} :
          view' = [view EXCEPT !.image_counter = 0,
                               !.slice_index = 0,
                               !.number_of_channels = C,
                               !.number_of_slices = Z,
                               !.total_images_per_volume = C * Z,
                               !.stack_cycling_mode = mode,
                               !.images_received = 0,
                               !.outcome = "none"]
    /\ ViewUnchanged

\* Lines 730-765: the channel of the per_stack branch for an image counter.
PerStackChannel(image_counter, number_of_slices) ==
    IF 0 * number_of_slices <= image_counter /\ image_counter < 1 * number_of_slices
    THEN 0
    ELSE IF 1 * number_of_slices <= image_counter /\ image_counter < 2 * number_of_slices
    THEN 1
    ELSE IF 2 * number_of_slices <= image_counter /\ image_counter < 3 * number_of_slices
    THEN 2
    ELSE IF 3 * number_of_slices <= image_counter /\ image_counter < 4 * number_of_slices
    THEN 3
    ELSE IF 4 * number_of_slices <= image_counter /\ image_counter < 5 * number_of_slices
    THEN 4
    ELSE 0

\* Variant of IdentifyChannelIndexAndSlice without the reset of the image
\* counter at the end of a volume (lines 725-726).
IdentifyChannelIndexAndSlice_NoReset ==
    /\ view.stack_cycling_mode # "none"
    /\ view.images_received < MaxFrames
    /\ LET counter == view.image_counter
           v == [view EXCEPT !.image_counter = counter,
                             !.images_received = @ + 1,
                             !.outcome = "ok"]
       IN  IF view.stack_cycling_mode = "per_stack"
           THEN LET ch == PerStackChannel(counter, view.number_of_slices) IN
                view' = [v EXCEPT !.channel_index = ch,
                                  !.slice_index = counter - ch * view.number_of_slices,
                                  !.image_counter = counter + 1]
           ELSE LET ch == view.images_received % view.number_of_channels IN
                IF view.image_volume = "None"
                THEN view' = [v EXCEPT !.channel_index = ch, !.outcome = "TypeError"]
                ELSE LET sl == IF ch = view.number_of_channels - 1
                               THEN view.slice_index + 1 ELSE view.slice_index IN
                     view' = [v EXCEPT !.channel_index = ch,
                                       !.slice_index =
                                           IF sl = view.total_images_per_volume
                                           THEN 0 ELSE sl]
    /\ ViewUnchanged

\* identify_channel_index_and_slice(microscope_state, images_received), lines
\* 724-779, called for each frame of the acquisition with the number of frames
\* received before it.  In the per_z branch line 775 stores the image into
\* self.image_volume, which is None (line 164; its allocation at lines
\* 705-708 is commented out): the statement raises TypeError and lines
\* 776-779 are not reached.
IdentifyChannelIndexAndSlice ==
    /\ view.stack_cycling_mode # "none"
    /\ view.images_received < MaxFrames
    /\ LET counter == IF view.image_counter = view.total_images_per_volume
                      THEN 0 ELSE view.image_counter
           v == [view EXCEPT !.image_counter = counter,
                             !.images_received = @ + 1,
                             !.outcome = "ok"]
       IN  IF view.stack_cycling_mode = "per_stack"
           THEN LET ch == PerStackChannel(counter, view.number_of_slices) IN
                view' = [v EXCEPT !.channel_index = ch,
                                  !.slice_index = counter - ch * view.number_of_slices,
                                  !.image_counter = counter + 1]
           ELSE LET ch == view.images_received % view.number_of_channels IN
                IF view.image_volume = "None"
                THEN view' = [v EXCEPT !.channel_index = ch, !.outcome = "TypeError"]
                ELSE LET sl == IF ch = view.number_of_channels - 1
                               THEN view.slice_index + 1 ELSE view.slice_index IN
                     view' = [v EXCEPT !.channel_index = ch,
                                       !.slice_index =
                                           IF sl = view.total_images_per_volume
                                           THEN 0 ELSE sl]
    /\ ViewUnchanged

InitView ==
    /\ InitModel(DefaultExperiment)
    /\ fail_budget = 0
    /\ startup = NoStartup
    /\ NoSources

NextView == InitializeNonLiveDisplay \/ IdentifyChannelIndexAndSlice

SpecView == InitView /\ [][NextView]_vars

\* ---------------------------------------------------- PyramidalDataSource
PyramidUnchanged ==
    UNCHANGED <<cfgVars, flagVars, cntVars, refVars, thr, cmd, devVars, outVars, ctrl,
                fail_budget, startup, zarr, view>>

\* What set_metadata_from_configuration_experiment reads of a configuration:
\* bdv is "absent" without BDVParameters/down_sample, "off" when its
\* down_sample entry is false, "on" when it is true; the caps are the
\* lateral_down_sample and axial_down_sample entries.
Configurations ==
    [bdv : {"absent", "off"}, max_xy : {1}, max_z : {1}]
      \cup [bdv : {"on"}, max_xy : 1..MaxDownSample, max_z : 1..MaxDownSample]

Max(a, b) == IF a >= b THEN a ELSE b

\* int(np.log2(n)) for an integer n >= 1.
RECURSIVE IntLog2(_)
IntLog2(n) == IF n < 2 THEN 0 ELSE 1 + IntLog2(n \div 2)

\* np.ceil(a / b).astype(int) for positive integers.
CeilDivide(a, b) == IF a % b = 0 THEN a \div b ELSE (a \div b) + 1

\* np.gcd(a, b)
RECURSIVE gcd(_, _)
gcd(a, b) == IF b = 0 THEN a ELSE gcd(b, a % b)

\* Line 184 (185): [2**i for i in range(int(np.log2(cap)) + 1)]
PowerValues(cap) == [j \in 1..(IntLog2(cap) + 1) |-> 2 ^ (j - 1)]

\* Lines 188-189: values.extend([values[-1]] * (max_len - len(values)))
Extend(values, max_len) ==
    [j \in 1..Max(max_len, Len(values)) |->
        IF j <= Len(values) THEN values[j] ELSE values[Len(values)]]

\* Variant of set_metadata_from_configuration_experiment without lines
\* 167-168: the two caches are kept.
set_metadata_KeepCaches(ds, configuration, shape) ==
    LET kept == [ds EXCEPT !.config = configuration]
        xy_values == PowerValues(configuration.max_xy)
        z_values == PowerValues(configuration.max_z)
        max_len == Max(Len(xy_values), Len(z_values))
        xy == Extend(xy_values, max_len)
        z == Extend(z_values, max_len)
        resolved ==
            IF configuration.bdv = "on"
            THEN [kept EXCEPT !.resolutions =
                     [j \in 1..max_len |-> <<xy[j], xy[j], z[j]>>]]
            ELSE kept
    IN  [resolved EXCEPT !.shape_x = shape[1], !.shape_y = shape[2],
                         !.shape_z = shape[3]]

\* Variant of set_metadata_from_configuration_experiment without the padding
\* of lines 187-189: zip stops at the end of the shorter list.
set_metadata_NoPadding(ds, configuration, shape) ==
    LET cleared == [ds EXCEPT !.subdivisions = <<>>, !.shapes = <<>>,
                              !.config = configuration]
        xy_values == PowerValues(configuration.max_xy)
        z_values == PowerValues(configuration.max_z)
        depth == IF Len(xy_values) <= Len(z_values) THEN Len(xy_values)
                 ELSE Len(z_values)
        resolved ==
            IF configuration.bdv = "on"
            THEN [cleared EXCEPT !.resolutions =
                     [j \in 1..depth |-> <<xy_values[j], xy_values[j], z_values[j]>>]]
            ELSE cleared
    IN  [resolved EXCEPT !.shape_x = shape[1], !.shape_y = shape[2],
                         !.shape_z = shape[3]]

\* set_metadata_from_configuration_experiment, lines 167-198: both caches are
\* dropped, the resolutions are rebuilt when down-sampling is switched on,
\* and the base class then takes the image shape from the configuration.
set_metadata_from_configuration_experiment(ds, configuration, shape) ==
    LET cleared == [ds EXCEPT !.subdivisions = <<>>, !.shapes = <<>>,
                              !.config = configuration]
        xy_values == PowerValues(configuration.max_xy)
        z_values == PowerValues(configuration.max_z)
        max_len == Max(Len(xy_values), Len(z_values))
        xy == Extend(xy_values, max_len)
        z == Extend(z_values, max_len)
        resolved ==
            IF configuration.bdv = "on"
            THEN [cleared EXCEPT !.resolutions =
                     [j \in 1..max_len |-> <<xy[j], xy[j], z[j]>>]]
            ELSE cleared
    IN  [resolved EXCEPT !.shape_x = shape[1], !.shape_y = shape[2],
                         !.shape_z = shape[3]]

\* Variant of shapes that divides by the resolutions as stored, (x,y,z),
\* without reversing them.
shapes_NoReverse(ds) ==
    IF ds.shapes # <<>> THEN ds
    ELSE [ds EXCEPT !.shapes =
            [l \in 1..Len(ds.resolutions) |->
                <<Max(CeilDivide(ds.shape_z, ds.resolutions[l][1]), 1),
                  Max(CeilDivide(ds.shape_y, ds.resolutions[l][2]), 1),
                  Max(CeilDivide(ds.shape_x, ds.resolutions[l][3]), 1)>>]]

\* The shapes property, lines 125-133: the source after the read; its shapes
\* field is the value returned, one (z,y,x) triple per level.
shapes(ds) ==
    IF ds.shapes # <<>> THEN ds
    ELSE [ds EXCEPT !.shapes =
            [l \in 1..Len(ds.resolutions) |->
                <<Max(CeilDivide(ds.shape_z, ds.resolutions[l][3]), 1),
                  Max(CeilDivide(ds.shape_y, ds.resolutions[l][2]), 1),
                  Max(CeilDivide(ds.shape_x, ds.resolutions[l][1]), 1)>>]]

\* Variant of subdivisions without the reversal of line 111.
subdivisions_NoReverse(ds) ==
    IF ds.subdivisions # <<>> THEN ds
    ELSE LET d == shapes(ds) IN
         [d EXCEPT !.subdivisions =
            [l \in 1..Len(d.resolutions) |->
                <<Max(gcd(32, d.shapes[l][1]), 1),
                  Max(gcd(32, d.shapes[l][2]), 1),
                  Max(gcd(32, d.shapes[l][3]), 1)>>]]

\* The subdivisions property, lines 101-112: the source after the read; its
\* subdivisions field is the value returned, one (x,y,z) triple per level.
subdivisions(ds) ==
    IF ds.subdivisions # <<>> THEN ds
    ELSE LET d == shapes(ds)
             zyx == [l \in 1..Len(d.resolutions) |->
                       <<Max(gcd(32, d.shapes[l][1]), 1),
                         Max(gcd(32, d.shapes[l][2]), 1),
                         Max(gcd(32, d.shapes[l][3]), 1)>>]
         IN  [d EXCEPT !.subdivisions =
                [l \in 1..Len(zyx) |-> <<zyx[l][3], zyx[l][2], zyx[l][1]>>]]

\* Whether the shapes held before a call of
\* set_metadata_from_configuration_experiment differ from those of the
\* metadata the call sets.
StaleCache(ds, configuration, shape) ==
    /\ ds.shapes # <<>>
    /\ LET d == set_metadata_from_configuration_experiment(
                    [ds EXCEPT !.shapes = <<>>, !.subdivisions = <<>>],
                    configuration, shape)
       IN  ds.shapes # shapes([d EXCEPT !.shapes = <<>>]).shapes

\* A call of set_metadata_from_configuration_experiment, for images whose
\* width and height do and do not share factors with 32 and that have a few
\* planes.
SetMetadata ==
    /\ \E configuration \in Configurations,
          x \in {3, 48}, y \in {4, 32}, z \in 1..MaxExtent :
          pyramid' =
              [set_metadata_from_configuration_experiment(pyramid, configuration,
                                                          <<x, y, z>>)
                  EXCEPT !.op = "set_metadata", !.read = <<>>, !.cached = FALSE,
                         !.stale = StaleCache(pyramid, configuration, <<x, y, z>>)]
    /\ PyramidUnchanged

ReadResolutions ==
    /\ pyramid.op # "resolutions"
    /\ pyramid' = [pyramid EXCEPT !.op = "resolutions", !.read = pyramid.resolutions,
                                  !.cached = FALSE]
    /\ PyramidUnchanged

ReadShapes ==
    /\ ~(pyramid.op = "shapes" /\ pyramid.cached)
    /\ LET d == shapes(pyramid) IN
       pyramid' = [d EXCEPT !.op = "shapes", !.read = d.shapes,
                            !.cached = (pyramid.shapes # <<>>)]
    /\ PyramidUnchanged

ReadSubdivisions ==
    /\ ~(pyramid.op = "subdivisions" /\ pyramid.cached)
    /\ LET d == subdivisions(pyramid) IN
       pyramid' = [d EXCEPT !.op = "subdivisions", !.read = d.subdivisions,
                            !.cached = (pyramid.subdivisions # <<>>)]
    /\ PyramidUnchanged

InitPyramid ==
    /\ InitModel(DefaultExperiment)
    /\ fail_budget = 0
    /\ startup = NoStartup
    /\ NoSources

NextPyramid == SetMetadata \/ ReadResolutions \/ ReadShapes \/ ReadSubdivisions

SpecPyramid == InitPyramid /\ [][NextPyramid]_vars

\* ------------------------------------------ PyramidalDataSource.__getitem__
\* The components of an index tuple: an integer, the slices `:` and `1:`,
\* and Ellipsis.
IntKey(n) == [kind |-> "int", start |-> n]
SliceKey(n) == [kind |-> "slice", start |-> n]
EllipsisKey == [kind |-> "ellipsis", start |-> 0]

\* The components tried at each position of (x, y, c, z, t, p, subdivisions)
\* and beyond.
KeyDomain(pos) ==
    CASE pos = 3 -> {IntKey(0), IntKey(1), SliceKey(0), SliceKey(1)}
      [] pos = 5 -> {IntKey(0), SliceKey(0), SliceKey(1)}
      [] pos = 6 -> {IntKey(0), SliceKey(0)}
      [] pos = 7 -> {IntKey(0), IntKey(1), SliceKey(0)}
      [] pos > 7 -> {IntKey(0)}
      [] OTHER -> {SliceKey(0)}

RECURSIVE KeyTuples(_)
KeyTuples(n) ==
    IF n = 0 THEN {<<>>}
    ELSE {Append(k, c) : k \in KeyTuples(n - 1), c \in KeyDomain(n)}

\* Every index tuple of up to MaxKeys components, with and without a
\* trailing Ellipsis.
AllKeys ==
    UNION { KeyTuples(n) : n \in 0..MaxKeys }
      \cup UNION { {Append(k, EllipsisKey) : k \in KeyTuples(n - 1)} : n \in 1..MaxKeys }

\* tools.slicing.ensure_iter(keys, pos, shape), pos counted from 0: the
\* indices a component selects along an axis of the given extent, as an
\* ascending sequence; an absent component or an Ellipsis selects them all.
ensure_iter(keys, pos, shape) ==
    LET FromTo(a, b) == [j \in 1..Max(b - a, 0) |-> a + j - 1] IN
    IF Len(keys) > pos /\ keys[pos + 1].kind = "int"
    THEN <<keys[pos + 1].start>>
    ELSE IF Len(keys) > pos /\ keys[pos + 1].kind = "slice"
    THEN FromTo(keys[pos + 1].start, shape)
    ELSE FromTo(0, shape)

\* Lines 271-273: the (c, t, p) of the loop nest in the order it visits them.
RECURSIVE LoopNest(_, _, _, _, _, _)
LoopNest(cs, ts, ps, i, j, k) ==
    IF i > Len(cs) THEN <<>>
    ELSE IF j > Len(ts) THEN LoopNest(cs, ts, ps, i + 1, 1, 1)
    ELSE IF k > Len(ps) THEN LoopNest(cs, ts, ps, i, j + 1, 1)
    ELSE <<(<<cs[i], ts[j], ps[k]>>)>> \o LoopNest(cs, ts, ps, i, j, k + 1)

\* Lines 220-257: the length test, the selections, the Ellipsis and the
\* subdivision; then either the single call of get_slice or the allocation of
\* the 6D array (lines 259-269).
GetItemEnter ==
    /\ pyramid.pc = "call"
    /\ LET keys == pyramid.keys
           length == Len(keys)
           cs == ensure_iter(keys, 2, pyramid.shape_c)
           ts == ensure_iter(keys, 4, pyramid.shape_t)
           ps == ensure_iter(keys, 5, pyramid.positions)
           strip == length > 1 /\ keys[length] = EllipsisKey
           keys1 == IF strip THEN SubSeq(keys, 1, length - 1) ELSE keys
           length1 == IF strip THEN length - 1 ELSE length
           sub_divisions == IF length1 > 6 /\ keys1[7].kind = "int"
                            THEN keys1[7].start ELSE 0
       IN  pyramid' =
             IF length < 1
             THEN [pyramid EXCEPT !.pc = "raised", !.outcome = "TooFewIndices"]
             ELSE IF length > 7
             THEN [pyramid EXCEPT !.pc = "raised", !.outcome = "TooManyIndices"]
             ELSE [pyramid EXCEPT
                      !.sel = <<cs, ts, ps>>,
                      !.sub_divisions = sub_divisions,
                      !.todo = LoopNest(cs, ts, ps, 1, 1, 1),
                      !.pc = IF Len(cs) = 1 /\ Len(ts) = 1 /\ Len(ps) = 1
                             THEN "single" ELSE "loop"]
    /\ PyramidUnchanged

\* Line 257: one call of get_slice, whose result is returned as it is.
\* get_slice is the one a derived class supplies (the one of this class only
\* raises NotImplementedError, lines 310-312).
GetSliceSingle ==
    /\ pyramid.pc = "single"
    /\ pyramid' = [pyramid EXCEPT !.calls = Append(@, pyramid.todo[1]),
                                  !.todo = <<>>,
                                  !.pc = "returned",
                                  !.outcome = "ok",
                                  !.result = "slice"]
    /\ PyramidUnchanged

\* Lines 271-278: one pass of the innermost loop body, or the return of the
\* array once the loops are done.  The slice of (c, t, p) is stored at
\* sliced_ds[p, t, :, c, :, :], an array with len(ps), len(ts) and len(cs)
\* entries along these axes: the store raises IndexError when p, t or c is
\* not below the number of values selected.
GetSliceLoop ==
    /\ pyramid.pc = "loop"
    /\ IF pyramid.todo = <<>>
       THEN pyramid' = [pyramid EXCEPT !.pc = "returned", !.outcome = "ok",
                                       !.result = "array6d"]
       ELSE LET c == pyramid.todo[1][1]
                t == pyramid.todo[1][2]
                p == pyramid.todo[1][3]
                fits == /\ c < Len(pyramid.sel[1])
                        /\ t < Len(pyramid.sel[2])
                        /\ p < Len(pyramid.sel[3])
            IN  pyramid' =
                  IF fits
                  THEN [pyramid EXCEPT !.calls = Append(@, pyramid.todo[1]),
                                       !.todo = Tail(@)]
                  ELSE [pyramid EXCEPT !.calls = Append(@, pyramid.todo[1]),
                                       !.pc = "raised",
                                       !.outcome = "IndexOutOfBounds"]
    /\ PyramidUnchanged

\* A call of __getitem__ with an index tuple, on a source with the given
\* (shape_c, shape_t, positions).
InitGetItem ==
    /\ InitModel(DefaultExperiment)
    /\ fail_budget = 0
    /\ startup = NoStartup
    /\ zarr = NoZarr
    /\ view = NoView
    /\ \E keys \in AllKeys, dims \in {<<1, 1, 1>>, <<3, 2, 2>>} :
          pyramid = [NoPyramid EXCEPT !.shape_c = dims[1], !.shape_t = dims[2],
                                      !.positions = dims[3], !.keys = keys,
                                      !.pc = "call", !.op = "getitem"]

NextGetItem == GetItemEnter \/ GetSliceSingle \/ GetSliceLoop

SpecGetItem == InitGetItem /\ [][NextGetItem]_vars

\* ------------------------------------- CameraViewController: mask overlay
\* The owner of the view switches the mask overlay on (display_mask_flag is
\* False after __init__, line 175, and no statement of the class sets it).
EnableMaskOverlay ==
    /\ ~view.display_mask_flag
    /\ view' = [view EXCEPT !.display_mask_flag = TRUE]
    /\ ViewUnchanged

\* set_mask_color_table, lines 1064-1074: the table is built, then the lock
\* is taken if it is seen unlocked; the test and the (blocking) acquire are
\* two steps.
SetMaskColorTable ==
    /\ \/ /\ view.pc_table = "idle"
          /\ view' = [view EXCEPT !.mask_color_table = "table", !.pc_table = "l1073"]
       \/ /\ view.pc_table = "l1073"
          /\ view' = [view EXCEPT !.pc_table = IF view.lock THEN "idle" ELSE "l1074"]
       \/ /\ view.pc_table = "l1074"
          /\ ~view.lock
          /\ view' = [view EXCEPT !.lock = TRUE, !.pc_table = "idle"]
    /\ ViewUnchanged

\* display_mask(mask), lines 1088-1089: the colour-mapped mask is assigned
\* (applyColorMap raises when the table is still None), then the lock is
\* released; releasing a threading.Lock that is not locked raises
\* RuntimeError.
DisplayMask ==
    /\ \/ /\ view.pc_display = "idle"
          /\ view.ilastik_seg_mask < MaxMasks
          /\ view' = IF view.mask_color_table = "None"
                     THEN [view EXCEPT !.mask_outcome = "cv2.error"]
                     ELSE [view EXCEPT !.ilastik_seg_mask = @ + 1,
                                       !.pc_display = "l1089"]
       \/ /\ view.pc_display = "l1089"
          /\ view' = IF view.lock
                     THEN [view EXCEPT !.lock = FALSE, !.pc_display = "idle",
                                       !.mask_outcome = "released"]
                     ELSE [view EXCEPT !.pc_display = "idle",
                                       !.mask_outcome = "RuntimeError"]
    /\ ViewUnchanged

\* populate_image, lines 655-662: with the overlay on, the lock is acquired
\* (blocking while it is locked) and the mask is read; the lock is not
\* released by the reader.
PopulateImage ==
    /\ \/ /\ view.pc_populate = "idle"
          /\ view' = [view EXCEPT !.pc_populate =
                                     IF view.display_mask_flag THEN "l656" ELSE "idle",
                                  !.mask_outcome =
                                     IF view.display_mask_flag THEN @ ELSE "no overlay"]
       \/ /\ view.pc_populate = "l656"
          /\ ~view.lock
          /\ view' = [view EXCEPT !.lock = TRUE, !.pc_populate = "l659"]
       \/ /\ view.pc_populate = "l659"
          /\ view' = [view EXCEPT !.mask_read = view.ilastik_seg_mask,
                                  !.pc_populate = "idle",
                                  !.mask_outcome = IF view.ilastik_seg_mask = 0
                                                   THEN "cv2.error" ELSE "blended"]
    /\ ViewUnchanged

NextMask == EnableMaskOverlay \/ SetMaskColorTable \/ DisplayMask \/ PopulateImage

SpecMask == InitView /\ [][NextMask]_vars

\* ======================================================================
\* Properties
\* ======================================================================
Sweepers == LiveIds \cup {CMD}

NumSelected(ms) == Len(SelectedKeys(ms["channels"]))

\* The device operations of one selected channel, in source order (lines 399-433).
ChannelOps ==
    <<"set_exposure_time", "trigger_digital_laser", "set_laser_analog_voltage",
      "set_filter", "sweep_time", "update_etl_parameters", "prepare_acquisition",
      "run_acquisition", "stop_acquisition">>

\* The channel index of every snap (run_acquisition) in a device log, in order.
RECURSIVE SnapChannels(_)
SnapChannels(log) ==
    IF log = <<>> THEN <<>>
    ELSE IF log[1].op = "run_acquisition"
         THEN <<log[1].ch>> \o SnapChannels(Tail(log))
         ELSE SnapChannels(Tail(log))

KeyIndexes(keys) == [j \in 1..Len(keys) |-> ChannelIndex(keys[j])]

\* The sweep of t returned because the channel loop was exhausted, not by break.
SweepExhausted(t) ==
    /\ thr[t].pc \in {"while", "l221"}
    /\ thr[t].keys # <<>>
    /\ thr[t].i = Len(thr[t].keys) + 1

\* ---------------------------------------------------------------------- C1
\* C1: once `stop` has raised the flag and has a live thread to join, it
\* eventually returns with the live sweep thread and the drain thread terminated.
C1_StopCompletes ==
    (cmd.command = "stop" /\ thr[CMD].pc = "l258")
        ~> (thr[CMD].pc = "idle" /\ Terminated(live_thread) /\ Terminated(data_thread))

\* ---------------------------------------------------------------------- C2
\* C2: within one acquisition no message reaches the display sink after the
\* 'stop' acknowledgment: 'stop' is the last message of the run.
C2_StopIsLastMessage == ~sink.late

\* The drain thread has acknowledged the stop and ended while the live thread
\* is still sweeping and the camera holds a frame that was never polled.
C2_Witness ==
    /\ sink.last = "stop"
    /\ data_thread # 0 /\ Terminated(data_thread)
    /\ live_thread # 0 /\ InSweep(live_thread)
    /\ camera.pending # <<>>

\* ---------------------------------------------------------------------- C3
\* C3: when run_data_process has returned in a `single` command, the frames it
\* received from the camera number N x M x Z x T.
C3_SingleDeliversAllFrames ==
    (cmd.command = "single" /\ thr[CMD].pc = "l223") =>
        thr[CMD].got = NumSelected(MicroscopeState) * MicroscopeState["stage_positions"]
                        * MicroscopeState["number_z_steps"] * MicroscopeState["timepoints"]

\* ---------------------------------------------------------------------- C4
\* C4: after prepare_acquisition_list the totals are N*M*T and N*M*T*Z with N
\* the number of selected channels, and both running counters are 0.
C4_TotalsCountSelected ==
    cmd.command = "prepare_acquisition_list" =>
        /\ counters.total_acquisition_count
             = NumSelected(MicroscopeState) * MicroscopeState["stage_positions"]
                 * MicroscopeState["timepoints"]
        /\ counters.total_image_count
             = counters.total_acquisition_count * MicroscopeState["number_z_steps"]
        /\ counters.image_count = 0
        /\ counters.acquisition_count = 0

\* ---------------------------------------------------------------------- C5
RunCommands == {"single", "live", "series", "update_setting", "stop"}

\* C5 as claimed: a command run without a data buffer ends in BufferNotReadyError.
C5_BufferNotReadyError ==
    (~data_buffer /\ cmd.command \in RunCommands /\ thr[CMD].pc = "idle")
        => cmd.outcome = "BufferNotReadyError"

\* C5 as amended: run_command without a data buffer returns normally at once,
\* issues no device command, starts no thread and leaves the stop flags and the
\* MicroscopeState unchanged.
C5_NoBufferNoEffect ==
    [][(thr[CMD].pc = "l203" /\ ~data_buffer) =>
          /\ thr'[CMD].pc = "idle"
          /\ cmd'.outcome = "returned"
          /\ \A t \in LiveIds \cup DataIds : thr'[t] = thr[t]
          /\ UNCHANGED <<devVars, flagVars, MicroscopeState, is_save, refVars, cntVars,
                         outVars>>]_vars

\* A `live` command has returned while no buffer was set.
C5_Witness ==
    /\ ~data_buffer
    /\ cmd.command = "live" /\ cmd.outcome = "returned" /\ thr[CMD].pc = "idle"

\* ---------------------------------------------------------------------- C6
\* C6: the DAQ facade sees prepare, run, stop in that order for every snap, and
\* no sweep ends between a prepare and its stop.
C6_DaqOrder ==
    [][\A t \in Sweepers :
          /\ (thr[t].pc = "prepare_acquisition" /\ thr'[t].pc = "run_acquisition")
                => daq.last \in {"none", "stop"}
          /\ (thr[t].pc = "run_acquisition" /\ thr'[t].pc = "stop_acquisition")
                => daq.last = "prepare"
          /\ (thr[t].pc = "stop_acquisition" /\ thr'[t].pc = "for_channel")
                => daq.last = "run"
          /\ (thr[t].pc \in SweepPcs /\ thr'[t].pc \notin SweepPcs)
                => daq.last \in {"none", "stop"}]_vars

\* ---------------------------------------------------------------------- C7
\* C7: the device log of a sweep is a run of blocks, one per channel, each block
\* holding the channel's operations in the order exposure, laser trigger, laser
\* power, filter, DAQ sweep time, ETL, prepare, run, stop; no channel's
\* operations lie in two blocks.
C7_ChannelOpsSequential ==
    \A t \in Sweepers :
        LET log == thr[t].log
            block(j) == (j - 1) \div Len(ChannelOps) IN
        /\ \A j \in 1..Len(log) : log[j].op = ChannelOps[((j - 1) % Len(ChannelOps)) + 1]
        /\ \A j, k \in 1..Len(log) : (log[j].ch = log[k].ch) <=> (block(j) = block(k))

\* A sweep has taken two channels through all their operations.
C7_Witness == \E t \in Sweepers : Len(thr[t].log) = 2 * Len(ChannelOps)

\* ---------------------------------------------------------------------- C8
\* C8 as claimed: the channels are visited in ascending channel-key order.
C8_AscendingKeyOrder ==
    \A t \in Sweepers :
        \A j, k \in 1..Len(thr[t].log) : j < k => thr[t].log[j].ch <= thr[t].log[k].ch

\* C8 as amended: a sweep visits the channels in the iteration order of the
\* channels mapping, issues no device operation for a channel that is not
\* selected, and when the loop is exhausted has snapped every selected channel
\* exactly once.
C8_SweepVisitsSelected ==
    \A t \in Sweepers :
        /\ \A j \in 1..Len(thr[t].log) :
              \E c \in 1..Len(thr[t].chs) :
                  /\ thr[t].chs[c].is_selected
                  /\ ChannelIndex(thr[t].chs[c].key) = thr[t].log[j].ch
        /\ SweepExhausted(t) =>
              SnapChannels(thr[t].log) = KeyIndexes(SelectedKeys(thr[t].chs))
        /\ InSweep(t) =>
              \E n \in 0..Len(SelectedKeys(thr[t].chs)) :
                  SnapChannels(thr[t].log)
                      = KeyIndexes(SubSeq(SelectedKeys(thr[t].chs), 1, n))

\* A sweep ran to the end of a two-channel mapping and skipped the unselected one.
C8_Witness ==
    \E t \in Sweepers :
        /\ SweepExhausted(t)
        /\ Len(thr[t].keys) = 2
        /\ Len(thr[t].log) = Len(ChannelOps)

\* ---------------------------------------------------------------------- C9
MidChannelPcs == SweepPcs \ {"for_channel"}

StopObserved == stop_acquisition \/ stop_send_signal

\* The statement after a device operation of the channel body.
NextPc(pc) ==
    CASE pc = "set_exposure_time" -> "trigger_digital_laser"
      [] pc = "trigger_digital_laser" -> "set_laser_analog_voltage"
      [] pc = "set_laser_analog_voltage" -> "set_filter"
      [] pc = "set_filter" -> "sweep_time"
      [] pc = "sweep_time" -> "update_etl_parameters"
      [] pc = "update_etl_parameters" -> "prepare_acquisition"
      [] pc = "prepare_acquisition" -> "run_acquisition"
      [] pc = "run_acquisition" -> "stop_acquisition"
      [] pc = "stop_acquisition" -> "for_channel"

\* C9: a sweep that finds a stop flag raised at the head of the channel loop ends
\* without another device operation; in the middle of a channel the flags are
\* not consulted and the channel goes on through its snap; and a flag raised
\* during a sweep stays raised until that sweep has ended.
C9_CooperativeCancel ==
    [][\A t \in Sweepers :
          /\ (thr[t].pc = "for_channel" /\ StopObserved /\ thr'[t] # thr[t])
                => (thr'[t].pc \notin SweepPcs /\ thr'[t].log = thr[t].log)
          /\ (thr[t].pc \in MidChannelPcs /\ thr'[t] # thr[t])
                => /\ thr'[t].pc = NextPc(thr[t].pc)
                   /\ Len(thr'[t].log) = Len(thr[t].log) + 1
                   /\ thr'[t].log[Len(thr'[t].log)].op = thr[t].pc
          /\ (InSweep(t) /\ StopObserved)
                => (StopObserved' \/ thr'[t].pc \notin SweepPcs)]_vars

\* A flag was raised while a channel was being acquired: its snap has finished
\* and the loop stands before a later channel with the flag up.
C9_Witness ==
    \E t \in Sweepers :
        /\ thr[t].pc = "for_channel"
        /\ thr[t].i = 2 /\ Len(thr[t].keys) = 2
        /\ Len(thr[t].log) = Len(ChannelOps)
        /\ StopObserved

\* --------------------------------------------------------------------- C10
\* C10: `stop` raises the flag before anything else and leaves the shutter alone
\* until both joins are done; when it calls close_shutter, and from then until
\* the next command, no live sweep thread and no drain thread is alive.
C10_StopJoinsBeforeClose ==
    [][/\ (thr[CMD].pc = "l256" /\ thr'[CMD].pc # "l256")
             => (stop_acquisition' /\ shutter' = shutter)
       /\ (thr[CMD].pc \in {"l258", "l259"} /\ thr'[CMD] # thr[CMD])
             => shutter' = shutter
       /\ (cmd.command = "stop" /\ thr[CMD].pc = "l260")
             => \A t \in LiveIds \cup DataIds : Terminated(t)
       /\ (cmd.command = "stop" /\ thr[CMD].pc = "idle")
             => \A t \in LiveIds \cup DataIds : Terminated(t) /\ thr'[t] = thr[t]]_vars

\* `stop` has returned after a live run that took at least one snap.
C10_Witness ==
    /\ cmd.command = "stop" /\ cmd.outcome = "returned" /\ thr[CMD].pc = "idle"
    /\ live_thread # 0 /\ data_thread # 0
    /\ shutter = "closed"
    /\ daq.last = "stop"

\* --------------------------------------------------------------------- C11
\* C11: update_setting writes the channels only with the stop-send flag raised
\* and every live sweep thread terminated; it starts the new live thread only
\* after the write, with the flag cleared; and every sweep iterates the keys of
\* the very channels mapping it looks its channels up in.
C11_UpdatePausesSweep ==
    [][/\ (thr[CMD].pc = "l246" /\ thr'[CMD].pc # "l246")
             => (stop_send_signal /\ \A t \in LiveIds : Terminated(t))
       /\ (cmd.command = "update_setting"
             /\ MicroscopeState' # MicroscopeState)
             => (thr[CMD].pc = "l246" /\ \A t \in Sweepers : ~InSweep(t))
       /\ (cmd.command = "update_setting" /\ \E t \in LiveIds : thr[t].pc # thr'[t].pc
             /\ thr'[t].pc = "l441")
             => (thr[CMD].pc = "l250" /\ ~stop_send_signal
                   /\ MicroscopeState' = MicroscopeState)
       /\ \A t \in Sweepers : InSweep(t) => thr[t].keys = Keys(thr[t].chs)]_vars

\* A restarted live thread is acquiring with channels that update_setting wrote.
C11_Witness ==
    /\ ctrl = "live"
    /\ cmd.command = "update_setting" /\ cmd.outcome = "returned"
    /\ MicroscopeState["stage_positions"] = 1 /\ MicroscopeState["number_z_steps"] = 1
    /\ Len(MicroscopeState["channels"]) = 2
    /\ \E t \in LiveIds :
          /\ InSweep(t)
          /\ thr[t].chs = MicroscopeState["channels"]
          /\ thr[t].log # <<>>

\* --------------------------------------------------------------------- C12
\* C12: once `single` or `live` has called open_shutter, mode 'low' has the left
\* shutter open and mode 'high' the right one; with any other resolution_mode
\* no sweep runs and the command ends in a configuration error.
C12_ShutterSelection ==
    LET mode == MicroscopeState["resolution_mode"] IN
    /\ (cmd.command \in {"single", "live"} /\ thr[CMD].pc \in {"l220", "l231"})
          => /\ mode = "low" => shutter = "left"
             /\ mode = "high" => shutter = "right"
    /\ mode \notin {"low", "high"}
          => /\ \A t \in Sweepers : ~InSweep(t)
             /\ (cmd.command \in {"single", "live"} /\ thr[CMD].pc = "idle")
                   => cmd.outcome = "ConfigurationError"

\* --------------------------------------------------------------------- C13
\* C13: when a device call of a sweep raises, the sweep abandons the channel
\* without repeating the call and goes on to the next channel of the loop; the
\* thread and the enclosing command stay alive.
C13_FailureSkipsChannel ==
    [][\A t \in Sweepers :
          (fail_budget' < fail_budget /\ thr[t].pc \in DeviceCallPcs /\ thr'[t] # thr[t])
              => /\ thr'[t].pc = "for_channel"
                 /\ thr'[t].i = thr[t].i + 1
                 /\ thr'[t].log = thr[t].log
                 /\ cmd' = cmd]_vars

\* --------------------------------------------------------------------- C14
\* C14: when run_data_process has returned in a `single` command, the number of
\* slot ids sent to the display sink equals the number of slot ids the camera
\* returned, and is zero when no sink is registered.
C14_EverySlotForwardedOnce ==
    (cmd.command = "single" /\ thr[CMD].pc = "l223")
        => thr[CMD].sent = IF show_img_pipe THEN thr[CMD].got ELSE 0

\* --------------------------------------------------------------------- C15
\* C15: run_data_process(1), as called by `single`, returns after exactly one
\* frame has been received from the camera.
C15_DrainsExactlyN ==
    (cmd.command = "single" /\ thr[CMD].pc = "l223") => thr[CMD].got = 1

\* --------------------------------------------------------------------- C16
\* C16: when a `single` command that ran its sweep returns, the shutter is
\* closed and the last message on the registered display sink is 'stop'.
C16_SingleSignalsDrainComplete ==
    (cmd.command = "single" /\ cmd.outcome = "returned" /\ thr[CMD].pc = "idle"
        /\ data_buffer /\ show_img_pipe)
        => (shutter = "closed" /\ sink.last = "stop")

\* --------------------------------------------------------------------- C17
\* C17: no two threads of control are inside a call on the same device at the
\* same time.
C17_OneThreadPerDevice ==
    \A t, u \in ThreadIds :
        (t # u /\ thr[t].in_call # "none") => thr[t].in_call # thr[u].in_call

\* --------------------------------------------------------------------- C18
\* C18: whatever commands are issued, at most one thread is executing
\* run_single_acquisition and at most one live sweep thread is alive.
C18_OneSweepAtATime ==
    /\ \A t, u \in Sweepers : (InSweep(t) /\ InSweep(u)) => t = u
    /\ \A t, u \in LiveIds : (Alive(t) /\ Alive(u)) => t = u

\* --------------------------------------------------------------------- C19
\* The calls of func made so far all raised `exception`.
AllFailed(k) == \A j \in 1..k : startup.args.outcomes[j] = "exception"

\* C19: auto_redial calls func at most n_tries times; when it returns with
\* n_tries >= 1 it returns the object of the last call it made, which is the
\* first call that did not raise `exception`, and never None; it made no call
\* after that one; and when all n_tries calls raise `exception` it raises.
C19_AutoRedial ==
    startup.fn = "auto_redial" =>
        LET n == startup.args.n_tries IN
        /\ startup.calls <= n
        /\ (startup.pc \in {"l94", "returned"} /\ n >= 1)
              => /\ startup.val # 0
                 /\ startup.val = startup.calls
                 /\ startup.args.outcomes[startup.val] = "ok"
                 /\ AllFailed(startup.val - 1)
        /\ (startup.pc = "returned" /\ n >= 1) => startup.result = "device"
        /\ (n >= 1 /\ AllFailed(n)) => startup.pc \in {"for", "raised"}
        /\ startup.pc = "raised" => (startup.calls = n /\ AllFailed(n))

\* auto_redial returned the device of its third call after two failed calls.
C19_Witness ==
    /\ startup.fn = "auto_redial" /\ startup.pc = "returned"
    /\ startup.calls = 3 /\ startup.val = 3

\* --------------------------------------------------------------------- C20
\* The device types each function has a branch for.
Recognized(fn) ==
    CASE fn \in {"load_camera_connection", "start_camera"}
            -> {"HamamatsuOrca", "SyntheticCamera"}
      [] fn = "start_stages" -> {"PI", "SyntheticStage"}
      [] fn = "start_stages_r" -> {"Thorlabs"}
      [] fn = "load_zoom_connection" -> {"DynamixelZoom", "SyntheticZoom"}
      [] fn = "start_zoom" -> {"DynamixelZoom", "SyntheticZoom", "NoDevice"}
      [] fn \in {"load_filter_wheel_connection", "start_filter_wheel"}
            -> {"SutterFilterWheel", "SyntheticFilterWheel"}
      [] fn = "start_daq" -> {"NI", "SyntheticDAQ"}
      [] fn = "start_shutter" -> {"NI", "SyntheticShutter"}
      [] fn = "start_lasers" -> {"NI", "SyntheticLaser"}
      [] fn = "start_remote_focus_device" -> {"NI", "SyntheticRemoteFocus"}
      [] fn = "start_galvo" -> {"NI", "SyntheticGalvo"}

\* The type written in the configuration for the device the function starts.
ConfiguredType ==
    IF startup.fn = "start_stages_r" THEN startup.args.stages[2] ELSE startup.args.type

\* The function was called on a configuration that names a type for its
\* device (for start_zoom: the microscope's zoom has a hardware entry).
Started ==
    /\ startup.fn \in DeviceFunctions \cup StageFunctions
    /\ startup.pc # "call"
    /\ startup.fn = "start_zoom" => startup.args.has_hardware

FramesOf(ds) == ds.shape_c * ds.shape_z * ds.shape_t * ds.positions

\* After every write the frame counter is one more than the index of the
\* frame written, the container was set up by that write exactly when the
\* frame's indices were (c, z, t, p) = (0, 0, 0, 0), and the source is closed
\* exactly when every frame of the acquisition has been written.
C21_WritePath ==
    zarr.op = "write" =>
        /\ zarr.current_frame = zarr.last.frame + 1
        /\ zarr.current_frame = Len(zarr.written)
        /\ zarr.last.setup <=>
              cztp_indices(zarr, zarr.last.frame, zarr.per_stack) = <<0, 0, 0, 0>>
        /\ zarr.closed <=> zarr.current_frame >= FramesOf(zarr)

\* ---- C22
\* A close of a source to which no frame was written ends without an error
\* and leaves the source closed.
C22_EmptyCloseClean ==
    (zarr.op = "close" /\ zarr.written = <<>>) =>
        (zarr.outcome = "ok" /\ zarr.closed)

\* ---- C30
\* With one channel, one time point and one position, once every slice of
\* the volume has been written, reading ds[:, :, 0, :, 0, 0] returns the
\* written frames in z order.
C30_RoundTrip ==
    (/\ zarr.op = "read"
     /\ zarr.shape_c = 1 /\ zarr.shape_t = 1 /\ zarr.positions = 1
     /\ Len(zarr.written) = zarr.shape_z)
        => (zarr.outcome = "ok" /\ zarr.result = zarr.written)

\* ---- C25
\* In per_stack cycling with at most five channels, after the k-th frame
\* (k counted from 0 at initialize_non_live_display) the channel index is
\* (k mod (C*Z)) div Z and the slice index is (k mod (C*Z)) mod Z.
C25_PerStackIdentity ==
    (/\ view.stack_cycling_mode = "per_stack"
     /\ view.images_received >= 1
     /\ view.number_of_channels <= ChannelCap)
        => LET k == view.images_received - 1
               r == k % (view.number_of_channels * view.number_of_slices)
           IN  /\ view.outcome = "ok"
               /\ view.channel_index = r \div view.number_of_slices
               /\ view.slice_index = r % view.number_of_slices

\* Three channels, five slices: frame 15 is again channel 0, slice 0.
C25_Witness ==
    /\ view.stack_cycling_mode = "per_stack"
    /\ view.number_of_channels = 3 /\ view.number_of_slices = 5
    /\ view.images_received = 16
    /\ view.channel_index = 0 /\ view.slice_index = 0

\* ---- C26
\* In per_z cycling, after frame i (counted from 0) the channel index is
\* i mod C and the slice index is the number of frames of channel C-1 seen so
\* far: it went up by one with each of them and with no other frame.
C26_PerZIdentity ==
    (view.stack_cycling_mode = "per_z" /\ view.images_received >= 1)
        => LET i == view.images_received - 1
           IN  /\ view.outcome = "ok"
               /\ view.channel_index = i % view.number_of_channels
               /\ view.slice_index = view.images_received \div view.number_of_channels

\* ---- C27
\* Whenever the shapes are held, for every level and every axis the shape is
\* max(1, ceil(full extent / resolution of that level and axis)), the shape
\* being stored (z,y,x) and the resolution (x,y,z); level 0 has the full
\* shape; and a read of shapes returns them.
FullShape == <<pyramid.shape_z, pyramid.shape_y, pyramid.shape_x>>

CeilOf(a, b) == (a + b - 1) \div b

C27_ShapesPerLevel ==
    /\ pyramid.shapes # <<>> =>
          /\ Len(pyramid.shapes) = Len(pyramid.resolutions)
          /\ \A l \in 1..Len(pyramid.resolutions), axis \in 1..3 :
                pyramid.shapes[l][axis] =
                    Max(1, CeilOf(FullShape[axis], pyramid.resolutions[l][4 - axis]))
          /\ pyramid.resolutions[1] = <<1, 1, 1>> => pyramid.shapes[1] = FullShape
    /\ pyramid.op = "shapes" =>
          (pyramid.shapes # <<>> /\ pyramid.read = pyramid.shapes)

\* shapes was read for a pyramid whose lateral and axial resolutions differ
\* at some level and whose x extent is not a multiple of the resolution.
C27_Witness ==
    /\ pyramid.op = "shapes"
    /\ Len(pyramid.resolutions) >= 2
    /\ pyramid.resolutions[2][1] # pyramid.resolutions[2][3]
    /\ pyramid.shape_x = 3
    /\ pyramid.read[2] # pyramid.read[1]

\* ---- C28
\* Whenever the subdivisions are held, for every level they are
\* (max(1, gcd(32, x extent)), max(1, gcd(32, y extent)), max(1, gcd(32, z
\* extent))) of that level's shape, in (x,y,z) order, and every read of
\* subdivisions, the first and the cached ones, returns them.
RECURSIVE CommonDivisor(_, _, _)
CommonDivisor(a, b, d) ==
    IF a % d = 0 /\ b % d = 0 THEN d ELSE CommonDivisor(a, b, d - 1)

C28_SubdivisionsPerLevel ==
    /\ pyramid.subdivisions # <<>> =>
          /\ pyramid.shapes # <<>>
          /\ Len(pyramid.subdivisions) = Len(pyramid.resolutions)
          /\ \A l \in 1..Len(pyramid.resolutions), axis \in 1..3 :
                pyramid.subdivisions[l][axis] =
                    Max(1, CommonDivisor(32, pyramid.shapes[l][4 - axis], 32))
    /\ pyramid.op = "subdivisions" =>
          (pyramid.subdivisions # <<>> /\ pyramid.read = pyramid.subdivisions)

\* A cached read of subdivisions whose x and z entries differ.
C28_Witness ==
    /\ pyramid.op = "subdivisions" /\ pyramid.cached
    /\ pyramid.read[1][1] # pyramid.read[1][3]
    /\ pyramid.read[1][1] = 16

\* ---- C29
\* Level 0 of the resolutions is always (1,1,1); after a configuration with
\* down-sampling switched on and caps max_xy and max_z, level i is
\* (min(2^i, P(max_xy)), min(2^i, P(max_xy)), min(2^i, P(max_z))) where P(n)
\* is the largest power of two not above n, and there are as many levels as
\* the longer of the two lists of powers.
LargestPower(n) == CHOOSE q \in {2 ^ j : j \in 0..n} : q <= n /\ 2 * q > n

Min(a, b) == IF a <= b THEN a ELSE b

LevelsFor(n) == Cardinality({j \in 0..n : 2 ^ j <= n})

C29_Resolutions ==
    /\ pyramid.resolutions[1] = <<1, 1, 1>>
    /\ pyramid.config.bdv = "on" =>
          LET xy == LargestPower(pyramid.config.max_xy)
              z == LargestPower(pyramid.config.max_z)
          IN  /\ Len(pyramid.resolutions) =
                    Max(LevelsFor(pyramid.config.max_xy), LevelsFor(pyramid.config.max_z))
              /\ \A l \in 1..Len(pyramid.resolutions) :
                    pyramid.resolutions[l] =
                        <<Min(2 ^ (l - 1), xy), Min(2 ^ (l - 1), xy), Min(2 ^ (l - 1), z)>>

\* Caps 1 and 3: the lateral list is padded to the depth of the axial one.
C29_Witness ==
    /\ pyramid.op = "resolutions"
    /\ pyramid.config.bdv = "on"
    /\ pyramid.config.max_xy = 1 /\ pyramid.config.max_z = 3
    /\ pyramid.read = << <<1, 1, 1>>, <<1, 1, 2>> >>

\* ---- C23
\* With a trailing Ellipsis not counted as a component: __getitem__ raises
\* IndexError at its length test exactly when the index tuple has fewer than
\* 1 or more than 7 components, and otherwise goes on with the subdivision
\* given by the seventh component when that is an integer and 0 when it is
\* not or is absent.
Components(keys) ==
    IF Len(keys) >= 1 /\ keys[Len(keys)] = EllipsisKey
    THEN SubSeq(keys, 1, Len(keys) - 1) ELSE keys

LengthErrors == {"TooFewIndices", "TooManyIndices"}

C23_IndexLength ==
    pyramid.pc \notin {"none", "call"} =>
        LET comps == Components(pyramid.keys) IN
        /\ pyramid.outcome \in LengthErrors <=> (Len(comps) < 1 \/ Len(comps) > 7)
        /\ pyramid.outcome \notin LengthErrors =>
              pyramid.sub_divisions =
                  IF Len(comps) = 7 /\ comps[7].kind = "int" THEN comps[7].start ELSE 0

\* ---- C24
\* A __getitem__ that passes the length test and selects one c, one t and
\* one p ends after exactly one get_slice call with that slice as its result;
\* with more than one c, t or p it ends with a 6D array after exactly
\* |c|*|t|*|p| get_slice calls, one for each combination selected.
Ended == pyramid.pc \in {"returned", "raised"} /\ pyramid.outcome \notin LengthErrors

Combinations ==
    { <<pyramid.sel[1][i], pyramid.sel[2][j], pyramid.sel[3][k]>> :
        i \in 1..Len(pyramid.sel[1]), j \in 1..Len(pyramid.sel[2]),
        k \in 1..Len(pyramid.sel[3]) }

C24_DelegatesPerCombination ==
    Ended =>
        /\ pyramid.pc = "returned"
        /\ Len(pyramid.calls) = Cardinality(Combinations)
        /\ {pyramid.calls[n] : n \in 1..Len(pyramid.calls)} = Combinations
        /\ pyramid.result =
              IF /\ Len(pyramid.sel[1]) = 1 /\ Len(pyramid.sel[2]) = 1
                 /\ Len(pyramid.sel[3]) = 1
              THEN "slice" ELSE "array6d"

\* ---- C31
\* Every hardware value applied for a channel of a sweep is that channel's
\* own: the exposure its camera_exposure_time, the laser triggered its
\* laser_index, the analog voltage its laser_index and laser_power, the filter
\* its filter, and the DAQ sweep time its camera_exposure_time (in
\* milliseconds here, as SetSweepTime keeps it).
ChannelOf(chs, idx) == chs[CHOOSE j \in 1..Len(chs) : ChannelIndex(chs[j].key) = idx]

C31_ChannelOwnValues ==
    \A t \in Sweepers : \A n \in 1..Len(thr[t].log) :
        LET o == thr[t].log[n]
            channel == ChannelOf(thr[t].chs, o.ch)
        IN  /\ o.op = "set_exposure_time" => o.a = channel.camera_exposure_time
            /\ o.op = "trigger_digital_laser" => o.a = channel.laser_index
            /\ o.op = "set_laser_analog_voltage" =>
                  (o.a = channel.laser_index /\ o.b = channel.laser_power)
            /\ o.op = "set_filter" => o.a = channel.filter
            /\ o.op = "sweep_time" => o.a = channel.camera_exposure_time

\* ---- C32
\* When a single or live command is about to start acquiring (its flags are
\* cleared and its shutter open), the run-scoped counters image_count,
\* acquisition_count and current_time_point are 0.
AcquisitionStarts ==
    \/ cmd.command = "single" /\ thr[CMD].pc = "l220"
    \/ cmd.command = "live" /\ thr[CMD].pc = "l231"

C32_CountersResetPerRun ==
    AcquisitionStarts =>
        /\ counters.image_count = 0
        /\ counters.acquisition_count = 0
        /\ current_time_point = 0

\* ---- C36
\* In a single run with saving, the frames are made in the order of the
\* sweep's snaps and every write_tiff call carries the channel of the snap
\* that made its frame.
C36_SavedChannelTag ==
    (cmd.command = "single" /\ is_save) =>
        LET snaps == SnapChannels(thr[CMD].log) IN
        \A j \in 1..Len(saved) :
            j <= Len(snaps) => saved[j].channel = snaps[j]

\* ---- C35
\* Outside a live run, that is when the last of the live and stop commands
\* was a stop (or there was none) and no command is running, no live sweep
\* thread is alive; in particular none runs with the shutter closed and
\* without a drain thread.
C35_LiveThreadLifetime ==
    (ctrl = "idle" /\ thr[CMD].pc = "idle") => \A t \in LiveIds : ~Alive(t)

\* ---- C33
\* Whatever populate_image read of ilastik_seg_mask with the overlay on was a
\* mask that display_mask had assigned, never the None of __init__.
C33_ReadsPublishedMask == view.mask_read # 0

\* ---- C38
\* No release of ilastik_mask_ready_lock by display_mask finds the lock
\* unlocked.
C38_ReleaseOnlyHeldLock == view.mask_outcome # "RuntimeError"

\* ---- C37
\* From initialize_non_live_display on, after any number of
\* identify_channel_index_and_slice calls, the channel index lies in
\* 0..number_of_channels-1 and the slice index in 0..number_of_slices-1.
C37_IndexRanges ==
    view.stack_cycling_mode # "none" =>
        /\ 0 <= view.channel_index /\ view.channel_index < view.number_of_channels
        /\ 0 <= view.slice_index /\ view.slice_index < view.number_of_slices

\* ---- C39
\* When the configuration given last has down-sampling switched off or names
\* none, the resolutions are the single level (1,1,1).
C39_ResolutionsFollowLastConfiguration ==
    pyramid.config.bdv \in {"absent", "off"} => pyramid.resolutions = << <<1, 1, 1>> >>

\* ---- C40
\* In the looping path of __getitem__ every get_slice result is stored at a
\* position inside the array of len(ps) x len(ts) x len(cs) entries, and no
\* two combinations are stored at the same position; the stores are at
\* [p, t, :, c], so the position of a call (c, t, p) is (p, t, c).
MultiValued ==
    Len(pyramid.sel) = 3 /\
    ~(Len(pyramid.sel[1]) = 1 /\ Len(pyramid.sel[2]) = 1 /\ Len(pyramid.sel[3]) = 1)

C40_StoresInRangeAndApart ==
    (pyramid.op = "getitem" /\ MultiValued) =>
        /\ \A n \in 1..Len(pyramid.calls) :
              /\ pyramid.calls[n][1] < Len(pyramid.sel[1])
              /\ pyramid.calls[n][2] < Len(pyramid.sel[2])
              /\ pyramid.calls[n][3] < Len(pyramid.sel[3])
        /\ \A n, m \in 1..Len(pyramid.calls) :
              n # m => pyramid.calls[n] # pyramid.calls[m]

\* ---- C34
\* A call of set_metadata_from_configuration_experiment leaves both caches
\* empty, and every read of shapes or subdivisions, and every cache held,
\* equals the value computed afresh from the resolutions and the full shape
\* of the state it is read in.
FreshShapes == shapes([pyramid EXCEPT !.shapes = <<>>]).shapes

FreshSubdivisions ==
    subdivisions([pyramid EXCEPT !.shapes = <<>>, !.subdivisions = <<>>]).subdivisions

C34_NoStaleCache ==
    /\ pyramid.op = "set_metadata" =>
          (pyramid.shapes = <<>> /\ pyramid.subdivisions = <<>>)
    /\ pyramid.op = "shapes" => pyramid.read = FreshShapes
    /\ pyramid.op = "subdivisions" => pyramid.read = FreshSubdivisions
    /\ pyramid.shapes # <<>> => pyramid.shapes = FreshShapes
    /\ pyramid.subdivisions # <<>> => pyramid.subdivisions = FreshSubdivisions

\* subdivisions is read first after a reset that dropped shapes other than
\* those of the new metadata.
C34_Witness ==
    /\ pyramid.stale
    /\ pyramid.op = "subdivisions" /\ ~pyramid.cached
    /\ pyramid.read = FreshSubdivisions

====
